---- MODULE Spec2Model ----
(***************************************************************************)
(* A model of sessionclean: the session ledger (database.py), the          *)
(* relevance filter (filter_engine.py), the live monitor's event handlers  *)
(* (monitor.py), the baseline scanner (scanner.py), the shutdown hook      *)
(* (shutdown_hook.py) and the parts of the application orchestrator        *)
(* (app.py) that drive the scan, the monitor and the review window.        *)
(*                                                                         *)
(* The specifications share the variables:                                 *)
(*   Spec         the monitor's event handlers over the baseline of a scan *)
(*   SpecConc     ledger operations issued by concurrent threads, at the   *)
(*                granularity of sqlite statements, lock and commit        *)
(*   SpecHook     the shutdown hook alone, its callback and its            *)
(*                orchestrator left free                                   *)
(*   SpecApp      the shutdown hook wired to the application's UI thread   *)
(*   SpecSession  the scan thread, the monitor and the review window of    *)
(*                one application                                          *)
(*   SpecLedger   the ledger's new-file operations called by one thread    *)
(*   SpecBaseline the ledger's baseline operations called by one thread    *)
(*   SpecScan     the baseline scan of a file tree                         *)
(*   SpecRoots    the list of monitored roots and the watches on them      *)
(*   SpecFilter   the filter called on files of every kind                 *)
(*   SpecWatch    the event handlers over a ledger whose calls can fail    *)
(*   SpecShutdown the end of a shutdown review, UI thread and hook thread  *)
(*   SpecImmutable the baseline during one session of the ledger           *)
(*   SpecStop     FileMonitor.stop() observer by observer                  *)
(*   SpecBatch    _scan_directory statement by statement                   *)
(*   SpecRelease  allow_shutdown() statement by statement, on the UI       *)
(*                thread and on callback threads                           *)
(*   SpecRun      one process with its disk: the scanner's walk, file      *)
(*                events, reviews and the teardown                         *)
(***************************************************************************)
EXTENDS Integers, Sequences, FiniteSets, TLC

(***************************************************************************)
(* Bounds of the model.                                                    *)
(***************************************************************************)
MaxSize == 1          \* file sizes are 0..MaxSize
MaxTime == 1          \* time.time() and mtime values are 0..MaxTime
MaxBatch == 2         \* records per store_snapshot_batch call

Sizes == 0..MaxSize
Times == 0..MaxTime
OSErr == -1           \* an os.path.getsize / os.stat call that raises OSError

(***************************************************************************)
(* Paths.  A path is the sequence of its components; the file name is the  *)
(* last one.  Lower and Suffix are str.lower and pathlib's suffix on the   *)
(* names that occur.                                                       *)
(***************************************************************************)
PReport == <<"C:", "docs", "report.pdf">>
PPhoto == <<"C:", "docs", "Photo.PNG">>
PJunk == <<"C:", "docs", "Node_Modules", "index.js">>
Paths == {PReport, PPhoto, PJunk}

Lower(s) ==
    CASE s = "C:" -> "c:"
      [] s = "Photo.PNG" -> "photo.png"
      [] s = "Node_Modules" -> "node_modules"
      [] s = "AppData" -> "appdata"
      [] s = "Local" -> "local"
      [] s = "Temp" -> "temp"
      [] s = "Windows" -> "windows"
      [] s = "debug.LOG" -> "debug.log"
      [] s = ".TXT" -> ".txt"
      [] s = ".PNG" -> ".png"
      [] s = ".LOG" -> ".log"
      [] s = "Build" -> "build"
      [] s = "Temporary" -> "temporary"
      [] s = "Docs" -> "docs"
      [] OTHER -> s

Suffix(s) ==
    CASE s = "report.pdf" -> ".pdf"
      [] s = "photo.png" -> ".png"
      [] s = "Photo.PNG" -> ".PNG"
      [] s = "index.js" -> ".js"
      [] s = "a.txt" -> ".txt"
      [] s = "notes.txt" -> ".txt"
      [] s = "debug.log" -> ".log"
      [] s = "debug.LOG" -> ".LOG"
      [] OTHER -> ""

LStrip(ext) ==
    CASE ext = ".pdf" -> "pdf"
      [] ext = ".png" -> "png"
      [] ext = ".js" -> "js"
      [] ext = ".txt" -> "txt"
      [] ext = ".log" -> "log"
      [] OTHER -> ext

PathLower(p) == [i \in 1..Len(p) |-> Lower(p[i])]
Name(p) == p[Len(p)]

get_file_type(p) ==
    LET ext == Lower(Suffix(Name(p)))
    IN IF ext # "" THEN LStrip(ext) ELSE ""

(***************************************************************************)
(* constants.py: the built-in deny lists (the entries that the paths of    *)
(* the model can meet).                                                    *)
(***************************************************************************)
IGNORED_EXTENSIONS == {".tmp", ".log", ".dll", ".pyc", ".cache"}
IGNORED_DIRECTORIES == {"appdata", "node_modules", ".git", "temp", "tmp", "build"}
\* a fragment is its components; open = the fragment does not end with a
\* backslash, so its last component need only be a prefix
IGNORED_PATH_FRAGMENTS ==
    { [segs |-> <<"appdata", "local", "temp">>, open |-> TRUE],
      [segs |-> <<"windows">>, open |-> FALSE] }

PrefixPairs == { <<"temporary", "temp">> }
HasPrefix(s, pre) == s = pre \/ <<s, pre>> \in PrefixPairs

(***************************************************************************)
(* filter_engine.py                                                        *)
(***************************************************************************)
UserConfigs ==
    { [ignored_extensions |-> {}, ignored_directories |-> {}, show_hidden_files |-> FALSE],
      [ignored_extensions |-> {}, ignored_directories |-> {}, show_hidden_files |-> TRUE] }

FilterEngine(config) ==
    [ ignored_extensions |->
          IGNORED_EXTENSIONS \cup {Lower(e) : e \in config.ignored_extensions},
      ignored_directories |->
          IGNORED_DIRECTORIES \cup {Lower(d) : d \in config.ignored_directories},
      ignored_path_fragments |-> IGNORED_PATH_FRAGMENTS,
      show_hidden |-> config.show_hidden_files ]

FragmentAt(pl, frag, i) ==
    LET n == Len(frag.segs)
    IN /\ i >= 2
       /\ i + n - 1 <= Len(pl)
       /\ \A k \in 1..(n - 1) : pl[i + k - 1] = frag.segs[k]
       /\ IF frag.open
          THEN HasPrefix(pl[i + n - 1], frag.segs[n])
          ELSE pl[i + n - 1] = frag.segs[n] /\ i + n - 1 < Len(pl)

matches_ignored_path_fragment(f, pl) ==
    \E frag \in f.ignored_path_fragments : \E i \in 1..Len(pl) : FragmentAt(pl, frag, i)

matches_ignored_directory(f, pl) ==
    \E i \in 1..Len(pl) : pl[i] \in f.ignored_directories

matches_ignored_extension(f, pl) ==
    Suffix(Name(pl)) \in f.ignored_extensions

\* os.stat(...).st_file_attributes as read by the filter
Attrs == {"normal", "hidden", "system", "error"}
is_hidden_or_system(attrs) ==
    IF attrs = "error" THEN FALSE ELSE attrs \in {"hidden", "system"}

\* size is what os.path.getsize returns, OSErr when it raises
SizeReads == Sizes \cup {OSErr}
is_zero_byte(size) == IF size = OSErr THEN TRUE ELSE size = 0

\* should_include without tier 5
should_include_sized(f, p, attrs, size) ==
    LET pl == PathLower(p)
    IN IF matches_ignored_path_fragment(f, pl) THEN FALSE
       ELSE IF matches_ignored_directory(f, pl) THEN FALSE
       ELSE IF matches_ignored_extension(f, pl) THEN FALSE
       ELSE IF ~f.show_hidden /\ is_hidden_or_system(attrs) THEN FALSE
       ELSE TRUE

should_include(f, p, attrs, size) ==
    LET pl == PathLower(p)
    IN IF matches_ignored_path_fragment(f, pl) THEN FALSE
       ELSE IF matches_ignored_directory(f, pl) THEN FALSE
       ELSE IF matches_ignored_extension(f, pl) THEN FALSE
       ELSE IF ~f.show_hidden /\ is_hidden_or_system(attrs) THEN FALSE
       ELSE IF is_zero_byte(size) THEN FALSE
       ELSE TRUE

\* the file system reads one should_include call makes: os.stat in tier 4
\* and os.path.getsize in tier 5, each only when the tiers before it pass
should_include_reads(f, p, attrs) ==
    LET pl == PathLower(p)
    IN IF \/ matches_ignored_path_fragment(f, pl)
          \/ matches_ignored_directory(f, pl)
          \/ matches_ignored_extension(f, pl)
       THEN {}
       ELSE IF f.show_hidden THEN {"getsize"}
       ELSE IF is_hidden_or_system(attrs) THEN {"stat"}
       ELSE {"stat", "getsize"}

(***************************************************************************)
(* State.                                                                  *)
(***************************************************************************)
VARIABLES
    snapshot,        \* table snapshot: path -> [mtime, size]
    new_files,       \* table new_files: path -> [size, created_at, file_type]
    filter,          \* the FilterEngine the monitor's handlers hold
    last,            \* the operation that made the last step, and its inputs
    \* threads that call the ledger (SpecConc)
    lock,            \* SnapshotDatabase._lock: the thread holding it, or Free
    tpc,             \* thread -> where it is in the ledger call it makes
    hist,            \* thread -> the ledger calls it has made, in order
    txn,             \* thread -> the write its connection has not committed
    \* the process and the shutdown hook (SpecHook, SpecApp)
    proc,            \* "off": no process; "on": run() has started the subsystems;
                     \* "teardown": _teardown() is running; "exiting": it has returned
    sessions,        \* how many times the application has been started
    marker,          \* INTERRUPTED_FLAG exists on disk
    hwnd,            \* ShutdownHook._hwnd
    shutdown_blocked,\* ShutdownHook._shutdown_blocked
    os_ending,       \* the system has asked to end the session and not said how it went
    handler,         \* where the hook thread is in its WM_QUERYENDSESSION handler
    cb,              \* the threads started on _safe_callback, in order
    released,        \* ShutdownBlockReasonDestroy calls that returned since the block
                     \* was last asserted
    \* the UI thread of the application (SpecApp)
    ui_queue,        \* calls scheduled with root.after(0, ...), in order
    auto_review,     \* the root.after(2000, ...) review of run() has not fired yet
    cleanup_window,  \* SessionCleanApp._cleanup_window: NoWindow, or its is_shutdown
    scan_pc,         \* where the Scanner thread of _start_scan_and_monitor is
    monitor,         \* SessionCleanApp._monitor: NoMonitor, or a FileMonitor
    observers,       \* the FileMonitors whose watches are running
    \* the baseline scan (SpecScan)
    monitored_paths, \* AppConfig.monitored_paths: the MonitoredPaths, in order
    fs,              \* the file system the scanner walks: entry -> what it is
    is_scanning,     \* Scanner._is_scanning
    \* the watches of one FileMonitor (SpecRoots)
    active_paths,    \* FileMonitor.active_paths: the paths that have an observer
    stopping,        \* FileMonitor.stop(): NotStopping, or how far its loop has come
    staging,         \* Scanner._scan_directory: NotStaging, or its loop's batch and count
    \* allow_shutdown() statement by statement (SpecRelease)
    allowing         \* the threads between allow_shutdown's test and its release call

ledgerVars == <<snapshot, new_files>>
concVars == <<lock, tpc, hist, txn>>
hookVars == <<proc, sessions, marker, hwnd, shutdown_blocked, os_ending,
              handler, cb, released>>
appVars == <<ui_queue, auto_review, cleanup_window, scan_pc, monitor, observers>>
scanVars == <<monitored_paths, fs, is_scanning, active_paths, stopping, staging, allowing>>
notMonitorVars == <<concVars, hookVars, appVars, scanVars>>
vars == <<snapshot, new_files, filter, last, lock, tpc, hist, txn,
          proc, sessions, marker, hwnd, shutdown_blocked, os_ending,
          handler, cb, released, ui_queue, auto_review, cleanup_window,
          scan_pc, monitor, observers, monitored_paths, fs, is_scanning,
          active_paths, stopping, staging, allowing>>

NoOp == [op |-> "none"]

\* The directories and files the scanner can meet.  An entry is there and
\* readable ("ok"), there but a call on it raises OSError ("error": scandir
\* of a directory, is_file or stat of a file), or not there ("absent").
DDocs == <<"C:", "docs">>
DSub == <<"C:", "docs", "sub">>
DJunk == <<"C:", "docs", "Node_Modules">>
PNested == <<"C:", "docs", "sub", "notes.txt">>
ScanDirs == {DDocs, DSub, DJunk}
ScanFiles == {PReport, PNested, PJunk}
Entries == ScanDirs \cup ScanFiles
EntryStates == {"ok", "error", "absent"}

NotStopping == [running |-> FALSE, todo |-> {}, raised |-> {}, abandoned |-> {}]

NotStaging == [running |-> FALSE, todo |-> <<>>, batch |-> <<>>, count |-> 0,
               flushed |-> <<>>]

\* No thread is inside allow_shutdown(): not the UI thread, no callback thread.
NotAllowing == [ui |-> FALSE, cb |-> {}]

\* No scan is modelled: no monitored path, nothing on disk.
ScanIdle ==
    /\ monitored_paths = <<>>
    /\ fs = [e \in Entries |-> "absent"]
    /\ is_scanning = FALSE
    /\ active_paths = {}
    /\ stopping = NotStopping
    /\ staging = NotStaging
    /\ allowing = NotAllowing

\* No process is running: nothing of the hook or of the UI exists.
NoWindow == "None"
NoMonitor == 0
HandlerIdle == [step |-> 0, block_called |-> FALSE]
ProcessOff ==
    /\ proc = "off"
    /\ sessions = 0
    /\ marker = FALSE
    /\ hwnd = NoWindow
    /\ shutdown_blocked = FALSE
    /\ os_ending = FALSE
    /\ handler = HandlerIdle
    /\ cb = <<>>
    /\ released = 0
    /\ ui_queue = <<>>
    /\ auto_review = FALSE
    /\ cleanup_window = NoWindow
    /\ scan_pc = "idle"
    /\ monitor = NoMonitor
    /\ observers = {}

(***************************************************************************)
(* database.py: the statements, as functions of the tables.                *)
(***************************************************************************)
\* INSERT OR IGNORE INTO snapshot, one row
\* INSERT OR REPLACE INTO snapshot: the later row wins
InsertOrOverwrite(tbl, rec) ==
    [q \in DOMAIN tbl \cup {rec.path} |->
        IF q = rec.path THEN [mtime |-> rec.mtime, size |-> rec.size] ELSE tbl[q]]

InsertOrIgnore(tbl, rec) ==
    IF rec.path \in DOMAIN tbl
    THEN tbl
    ELSE [q \in DOMAIN tbl \cup {rec.path} |->
             IF q = rec.path THEN [mtime |-> rec.mtime, size |-> rec.size] ELSE tbl[q]]

RECURSIVE InsertBatch(_, _)
InsertBatch(tbl, recs) ==
    IF recs = <<>> THEN tbl
    ELSE InsertBatch(InsertOrIgnore(tbl, Head(recs)), Tail(recs))

\* INSERT OR IGNORE INTO new_files: the row of a recorded path is kept
InsertOrKeep(tbl, path, size, created_at, file_type) ==
    [q \in DOMAIN tbl \cup {path} |->
        IF q \in DOMAIN tbl
        THEN tbl[q]
        ELSE [size |-> size, created_at |-> created_at, file_type |-> file_type]]

\* INSERT OR REPLACE INTO new_files
InsertOrReplace(tbl, path, size, created_at, file_type) ==
    [q \in DOMAIN tbl \cup {path} |->
        IF q = path
        THEN [size |-> size, created_at |-> created_at, file_type |-> file_type]
        ELSE tbl[q]]

\* DELETE FROM new_files, without the WHERE clause
DeleteEveryRow(tbl, path) == [q \in {} |-> tbl[q]]

\* DELETE FROM new_files WHERE path = ?
DeleteRow(tbl, path) == [q \in DOMAIN tbl \ {path} |-> tbl[q]]

EmptyTable == [q \in {} |-> 0]

is_in_snapshot(path) == path \in DOMAIN snapshot

SnapshotRecords == [path : Paths, mtime : Times, size : {MaxSize}]
RECURSIVE SeqsUpTo(_, _)
SeqsUpTo(S, n) ==
    IF n = 0 THEN {<<>>}
    ELSE LET shorter == SeqsUpTo(S, n - 1)
         IN shorter \cup {Append(s, x) : s \in {t \in shorter : Len(t) = n - 1}, x \in S}
Batches == SeqsUpTo(SnapshotRecords, MaxBatch)

(***************************************************************************)
(* monitor.py: SessionFileHandler.  A handler runs on a watch thread some  *)
(* time after the file system changed, so what it reads from the file      *)
(* system is an input.  FsReads are the three reads a handler makes of one *)
(* file, in order: os.stat for the attributes and os.path.getsize (both in *)
(* the filter), then os.path.getsize in _try_record; the file exists with  *)
(* some attributes and size and may vanish before any of the reads.        *)
(***************************************************************************)
FsReads ==
    LET live == {a \in Attrs : a # "error"}
    IN {[attrs |-> "error", size |-> OSErr, size2 |-> OSErr]}
       \cup {[attrs |-> a, size |-> OSErr, size2 |-> OSErr] : a \in live}
       \cup {[attrs |-> a, size |-> s, size2 |-> OSErr] : a \in live, s \in Sizes}
       \cup {[attrs |-> a, size |-> s, size2 |-> s] : a \in live, s \in Sizes}

\* the new_files table after _try_record(file_path)
try_record_nosnapshot(tbl, file_path, r, now) ==
    IF ~should_include(filter, file_path, r.attrs, r.size) THEN tbl
    ELSE IF r.size2 = OSErr THEN tbl
    ELSE InsertOrReplace(tbl, file_path, r.size2, now, get_file_type(file_path))

\* _try_record whose except clause records the file with size 0
try_record_sizeless(tbl, file_path, r, now) ==
    IF ~should_include(filter, file_path, r.attrs, r.size) THEN tbl
    ELSE IF is_in_snapshot(file_path) THEN tbl
    ELSE InsertOrReplace(tbl, file_path, IF r.size2 = OSErr THEN 0 ELSE r.size2, now,
                         get_file_type(file_path))

try_record(tbl, file_path, r, now) ==
    IF ~should_include(filter, file_path, r.attrs, r.size) THEN tbl
    ELSE IF is_in_snapshot(file_path) THEN tbl
    ELSE IF r.size2 = OSErr THEN tbl
    ELSE InsertOrReplace(tbl, file_path, r.size2, now, get_file_type(file_path))

\* time.time() is read only where _try_record writes the record (line 81)
Nows(file_path, r) ==
    IF /\ r.size2 # OSErr
       /\ ~is_in_snapshot(file_path)
       /\ should_include(filter, file_path, r.attrs, r.size)
    THEN Times
    ELSE {0}

\* the new_files table after on_moved's two calls
moved_keep_src(tbl, src, dest, r, now) == try_record(tbl, dest, r, now)

moved(tbl, src, dest, r, now) == try_record(DeleteRow(tbl, src), dest, r, now)

DirEvent(op) ==
    [op |-> op, is_directory |-> TRUE, tracked |-> FALSE, include |-> FALSE,
     in_snapshot |-> FALSE, size_read |-> FALSE, calls |-> {}]

\* the methods of the filter and of the ledger a handler calls for a file
handler_calls(op, include, in_snapshot, size_read) ==
    (IF op \in {"on_moved", "on_deleted"} THEN {"remove_new_file"} ELSE {})
    \cup (IF op = "on_deleted" THEN {} ELSE
            {"should_include"}
            \cup (IF include THEN {"is_in_snapshot"} ELSE {})
            \cup (IF include /\ ~in_snapshot /\ size_read
                  THEN {"record_new_file"} ELSE {}))

\* what a handler met: the event's subject was tracked (a move's source, a
\* delete's path), the filter's verdict, the baseline test and whether
\* _try_record's size read succeeded, for the path it tried to record
FileEvent(op, src, target, r) ==
    [op |-> op, is_directory |-> FALSE, tracked |-> src \in DOMAIN new_files,
     include |-> should_include(filter, target, r.attrs, r.size),
     in_snapshot |-> is_in_snapshot(target), size_read |-> r.size2 # OSErr,
     calls |-> handler_calls(op, should_include(filter, target, r.attrs, r.size),
                             is_in_snapshot(target), r.size2 # OSErr)]

on_created_file(p) ==
    \E r \in FsReads : \E now \in Nows(p, r) :
        /\ new_files' = try_record(new_files, p, r, now)
        /\ last' = FileEvent("on_created", p, p, r)
        /\ UNCHANGED <<snapshot, filter, notMonitorVars>>

on_created ==
    \/ \E p \in Paths : on_created_file(p)
    \/ /\ last' = DirEvent("on_created")
       /\ UNCHANGED <<snapshot, new_files, filter, notMonitorVars>>

\* a move event names two different paths
on_moved_file(src, dest) ==
    \E r \in FsReads : \E now \in Nows(dest, r) :
        /\ src # dest
        /\ new_files' = moved(new_files, src, dest, r, now)
        /\ last' = [src |-> src, dest |-> dest] @@ FileEvent("on_moved", src, dest, r)
        /\ UNCHANGED <<snapshot, filter, notMonitorVars>>

on_moved ==
    \/ \E src \in Paths, dest \in Paths : on_moved_file(src, dest)
    \/ /\ last' = DirEvent("on_moved")
       /\ UNCHANGED <<snapshot, new_files, filter, notMonitorVars>>

on_deleted_file(p) ==
    /\ new_files' = DeleteRow(new_files, p)
    /\ last' = [path |-> p] @@
                [DirEvent("on_deleted") EXCEPT !.is_directory = FALSE,
                                               !.tracked = p \in DOMAIN new_files,
                                               !.calls = {"remove_new_file"}]
    /\ UNCHANGED <<snapshot, filter, notMonitorVars>>

\* on_deleted without the is_directory test
on_deleted_unchecked ==
    \E p \in Paths :
        /\ new_files' = DeleteRow(new_files, p)
        /\ last' = DirEvent("on_deleted")
        /\ UNCHANGED <<snapshot, filter, notMonitorVars>>

on_deleted ==
    \/ \E p \in Paths : on_deleted_file(p)
    \/ /\ last' = DirEvent("on_deleted")
       /\ UNCHANGED <<snapshot, new_files, filter, notMonitorVars>>

\* A ledger call of a handler raises sqlite3.Error (database is locked, disk
\* I/O error).  on_moved and on_deleted have no try statement and the one of
\* _try_record names (OSError, PermissionError), which sqlite3.Error is not:
\* the exception leaves the handler.  A call that raised wrote nothing.
Raised(op, failed) ==
    [op |-> op, is_directory |-> FALSE, failed |-> failed, raised |-> TRUE]

\* _try_record(file_path) reaches the ledger call that fails
try_record_reaches(file_path, r, failed) ==
    /\ should_include(filter, file_path, r.attrs, r.size)
    /\ \/ failed = "is_in_snapshot"
       \/ /\ failed = "record_new_file"
          /\ ~is_in_snapshot(file_path)
          /\ r.size2 # OSErr

on_created_raises ==
    \E p \in Paths, r \in FsReads, failed \in {"is_in_snapshot", "record_new_file"} :
        /\ try_record_reaches(p, r, failed)
        /\ last' = [path |-> p] @@ Raised("on_created", failed)
        /\ UNCHANGED <<snapshot, new_files, filter, notMonitorVars>>

on_moved_raises ==
    \E src \in Paths, dest \in Paths :
        /\ src # dest
        /\ \/ /\ last' = [src |-> src, dest |-> dest] @@ Raised("on_moved", "remove_new_file")
              /\ UNCHANGED new_files
           \/ \E r \in FsReads, failed \in {"is_in_snapshot", "record_new_file"} :
                 /\ try_record_reaches(dest, r, failed)
                 /\ new_files' = DeleteRow(new_files, src)
                 /\ last' = [src |-> src, dest |-> dest] @@ Raised("on_moved", failed)
        /\ UNCHANGED <<snapshot, filter, notMonitorVars>>

on_deleted_raises ==
    \E p \in Paths :
        /\ last' = [path |-> p] @@ Raised("on_deleted", "remove_new_file")
        /\ UNCHANGED <<snapshot, new_files, filter, notMonitorVars>>

(***************************************************************************)
(* database.py called from several threads.  Every thread has its own      *)
(* sqlite connection (_get_conn, thread-local).  A write method takes      *)
(* self._lock, executes its statement, which opens a transaction on the    *)
(* connection, commits and releases the lock.  initialize() takes no lock: *)
(* executescript runs its statements in autocommit mode, each DELETE a     *)
(* transaction of its own.  sqlite lets one connection write at a time; a  *)
(* statement that finds another connection's write transaction open waits  *)
(* (timeout=10).  A read sees the committed tables (journal_mode=WAL).     *)
(***************************************************************************)
MaxOps == 3           \* ledger calls made by all threads together
Threads == {"t1", "t2"}
Free == "free"
NoTxn == [op |-> "none"]

ConcRecord == [path |-> PReport, mtime |-> 0, size |-> MaxSize]
ConcOps ==
    { [op |-> "initialize"],
      [op |-> "store_snapshot_batch", records |-> <<ConcRecord>>],
      [op |-> "record_new_file", path |-> PPhoto, size |-> MaxSize, created_at |-> 0],
      [op |-> "remove_new_file", path |-> PPhoto],
      [op |-> "is_in_snapshot", path |-> PReport],
      [op |-> "get_new_files_count"] }
LockedWrites == {"store_snapshot_batch", "record_new_file", "remove_new_file"}
Reads == {"is_in_snapshot", "get_new_files_count"}

\* the tables after a call's statements, all of them, are committed
Apply(tbls, c) ==
    CASE c.op = "initialize" -> <<EmptyTable, EmptyTable>>
      [] c.op = "store_snapshot_batch" -> <<InsertBatch(tbls[1], c.records), tbls[2]>>
      [] c.op = "record_new_file" ->
            <<tbls[1], InsertOrReplace(tbls[2], c.path, c.size, c.created_at,
                                       get_file_type(c.path))>>
      [] c.op = "remove_new_file" -> <<tbls[1], DeleteRow(tbls[2], c.path)>>
      [] OTHER -> tbls

OpsStarted == Len(hist["t1"]) + Len(hist["t2"])
Current(t) == hist[t][Len(hist[t])]
ConcFrame == UNCHANGED <<filter, hookVars, appVars, scanVars>>

\* a thread enters a ledger method (for initialize: up to the first DELETE)
Call(t) ==
    \E c \in ConcOps :
        /\ tpc[t] = "idle"
        /\ OpsStarted < MaxOps
        /\ hist' = [hist EXCEPT ![t] = Append(@, c)]
        /\ tpc' = [tpc EXCEPT ![t] =
                      IF c.op \in LockedWrites THEN "acquire"
                      ELSE IF c.op = "initialize" THEN "delete_snapshot"
                      ELSE "select"]
        /\ last' = [op |-> c.op, thread |-> t]
        /\ UNCHANGED <<snapshot, new_files, lock, txn>>
        /\ ConcFrame

\* with self._lock:
Acquire(t) ==
    /\ tpc[t] = "acquire"
    /\ lock = Free
    /\ lock' = t
    /\ tpc' = [tpc EXCEPT ![t] = "execute"]
    /\ UNCHANGED <<snapshot, new_files, hist, txn, last>>
    /\ ConcFrame

\* conn.execute / conn.executemany: the write is in the connection's transaction
Execute(t) ==
    /\ tpc[t] = "execute"
    /\ \A u \in Threads : txn[u] = NoTxn
    /\ txn' = [txn EXCEPT ![t] = Current(t)]
    /\ tpc' = [tpc EXCEPT ![t] = "commit"]
    /\ UNCHANGED <<snapshot, new_files, hist, lock, last>>
    /\ ConcFrame

\* conn.commit()
Commit(t) ==
    /\ tpc[t] = "commit"
    /\ snapshot' = Apply(<<snapshot, new_files>>, txn[t])[1]
    /\ new_files' = Apply(<<snapshot, new_files>>, txn[t])[2]
    /\ txn' = [txn EXCEPT ![t] = NoTxn]
    /\ tpc' = [tpc EXCEPT ![t] = "release"]
    /\ UNCHANGED <<hist, lock, last>>
    /\ ConcFrame

\* leaving the with block
Release(t) ==
    /\ tpc[t] = "release"
    /\ lock' = Free
    /\ tpc' = [tpc EXCEPT ![t] = "idle"]
    /\ UNCHANGED <<snapshot, new_files, hist, txn, last>>
    /\ ConcFrame

\* initialize: DELETE FROM snapshot;
InitDeleteSnapshot(t) ==
    /\ tpc[t] = "delete_snapshot"
    /\ \A u \in Threads : txn[u] = NoTxn
    /\ snapshot' = EmptyTable
    /\ tpc' = [tpc EXCEPT ![t] = "delete_new_files"]
    /\ UNCHANGED <<new_files, hist, lock, txn, last>>
    /\ ConcFrame

\* initialize: DELETE FROM new_files; and the commit that follows
InitDeleteNewFiles(t) ==
    /\ tpc[t] = "delete_new_files"
    /\ \A u \in Threads : txn[u] = NoTxn
    /\ new_files' = EmptyTable
    /\ tpc' = [tpc EXCEPT ![t] = "idle"]
    /\ UNCHANGED <<snapshot, hist, lock, txn, last>>
    /\ ConcFrame

\* is_in_snapshot, get_new_files_count: one SELECT on the committed tables
Select(t) ==
    /\ tpc[t] = "select"
    /\ tpc' = [tpc EXCEPT ![t] = "idle"]
    /\ last' = [op |-> "select", thread |-> t,
                result |-> IF Current(t).op = "is_in_snapshot"
                           THEN is_in_snapshot(Current(t).path)
                           ELSE Cardinality(DOMAIN new_files) > 0]
    /\ UNCHANGED <<snapshot, new_files, hist, lock, txn>>
    /\ ConcFrame

ConcIdle ==
    /\ lock = Free
    /\ tpc = [t \in Threads |-> "idle"]
    /\ hist = [t \in Threads |-> <<>>]
    /\ txn = [t \in Threads |-> NoTxn]

InitConc ==
    /\ snapshot = EmptyTable
    /\ new_files = EmptyTable
    /\ filter = FilterEngine(CHOOSE c \in UserConfigs : ~c.show_hidden_files)
    /\ last = NoOp
    /\ ConcIdle
    /\ ProcessOff
    /\ ScanIdle

NextConc ==
    \E t \in Threads :
        \/ Call(t)
        \/ Acquire(t)
        \/ Execute(t)
        \/ Commit(t)
        \/ Release(t)
        \/ InitDeleteSnapshot(t)
        \/ InitDeleteNewFiles(t)
        \/ Select(t)

SpecConc == InitConc /\ [][NextConc]_vars

\* the tables that running the calls of s1 and s2 one after the other, in
\* any order that keeps each thread's own order, can end with
RECURSIVE Serial(_, _, _)
Serial(tbls, s1, s2) ==
    IF s1 = <<>> /\ s2 = <<>> THEN {tbls}
    ELSE (IF s1 = <<>> THEN {} ELSE Serial(Apply(tbls, Head(s1)), Tail(s1), s2))
         \cup (IF s2 = <<>> THEN {} ELSE Serial(Apply(tbls, Head(s2)), s1, Tail(s2)))

\* the calls of t that have returned, and those that have at least begun
Returned(t) == IF tpc[t] = "idle" THEN Len(hist[t]) ELSE Len(hist[t]) - 1
SerialStates ==
    UNION { Serial(<<EmptyTable, EmptyTable>>,
                   SubSeq(hist["t1"], 1, a), SubSeq(hist["t2"], 1, b)) :
            a \in Returned("t1")..Len(hist["t1"]), b \in Returned("t2")..Len(hist["t2"]) }

\* C3  Ledger concurrency: with threads calling the ledger and no external
\* lock, at most one connection has a write in progress, and the tables
\* are at every moment what the calls made so far give in some sequential
\* order (each call whole, calls still running counted or not).
C3_LedgerSerializable ==
    /\ Cardinality({t \in Threads : txn[t] # NoTxn}) <= 1
    /\ <<snapshot, new_files>> \in SerialStates

\* the same for the calls that take self._lock (no initialize among the calls)
LockedCallsSerializable ==
    (\A t \in Threads : \A i \in 1..Len(hist[t]) : hist[t][i].op # "initialize")
        => C3_LedgerSerializable

(***************************************************************************)
(* Spec: the monitor's handlers at work.  The application starts the       *)
(* monitor when the baseline scan is over (app.py, _scan_then_monitor), so *)
(* a behaviour starts with the baseline some scan left and an empty        *)
(* new_files table, and the handlers are the only writers.                 *)
(***************************************************************************)
SnapshotStat == [mtime |-> 0, size |-> MaxSize]
Baselines == UNION {[S -> {SnapshotStat}] : S \in SUBSET Paths}

Init ==
    /\ snapshot \in Baselines
    /\ new_files = EmptyTable
    /\ filter \in {FilterEngine(c) : c \in UserConfigs}
    /\ last = NoOp
    /\ ConcIdle
    /\ ProcessOff
    /\ ScanIdle

Next ==
    \/ on_created
    \/ on_moved
    \/ on_deleted

Spec == Init /\ [][Next]_vars

(***************************************************************************)
(* SpecWatch: the same events on a ledger whose calls can fail.            *)
(***************************************************************************)
NextWatch ==
    \/ Next
    \/ on_created_raises
    \/ on_moved_raises
    \/ on_deleted_raises

SpecWatch == Init /\ [][NextWatch]_vars

(***************************************************************************)
(* Claims about the monitor's handlers, checked under Spec.                *)
(***************************************************************************)
\* C1  Baseline exclusivity: when the monitor handles a non-directory create
\* event for a path that is in the baseline, the new_files table is left as
\* it was, whatever the filter's verdict for the path.
C1_BaselineExclusivity ==
    [][(last'.op = "on_created" /\ ~last'.is_directory /\ last'.in_snapshot)
          => new_files' = new_files]_vars

\* a create event for a baseline path that passes the filter has been handled
C1_Witness ==
    /\ last.op = "on_created"
    /\ ~last.is_directory
    /\ last.in_snapshot
    /\ last.include
    /\ last.size_read

\* C2 as stated: a non-directory move A->B of a tracked A leaves the baseline
\* as it was and no record at A; it leaves a record at B whenever B passes
\* the filter and is not in the baseline, and otherwise writes nothing for B.
C2_MoveSemantics_AsStated ==
    [][(last'.op = "on_moved" /\ ~last'.is_directory /\ last'.tracked) =>
          LET src == last'.src
              dest == last'.dest
          IN  /\ snapshot' = snapshot
              /\ src \notin DOMAIN new_files'
              /\ IF last'.include /\ ~last'.in_snapshot
                 THEN dest \in DOMAIN new_files'
                 ELSE new_files' = DeleteRow(new_files, src)]_vars

\* C2 amended: the record at B is written whenever B passes the filter, is
\* not in the baseline and _try_record can still read B's size; in every
\* other case A is removed and nothing is written for B.
C2_MoveSemantics ==
    [][(last'.op = "on_moved" /\ ~last'.is_directory /\ last'.tracked) =>
          LET src == last'.src
              dest == last'.dest
          IN  /\ src \in DOMAIN new_files
              /\ snapshot' = snapshot
              /\ src \notin DOMAIN new_files'
              /\ IF last'.include /\ ~last'.in_snapshot /\ last'.size_read
                 THEN /\ dest \in DOMAIN new_files'
                      /\ DOMAIN new_files' = (DOMAIN new_files \ {src}) \cup {dest}
                      /\ \A q \in DOMAIN new_files \ {src, dest} :
                            new_files'[q] = new_files[q]
                 ELSE new_files' = DeleteRow(new_files, src)]_vars

\* a move of a tracked file to a path that passes the filter, is not in the
\* baseline and whose size was read, has been handled
C2_Witness ==
    /\ last.op = "on_moved"
    /\ ~last.is_directory
    /\ last.tracked
    /\ last.include
    /\ ~last.in_snapshot
    /\ last.size_read
    /\ new_files # EmptyTable


(***************************************************************************)
(* shutdown_hook.py: ShutdownHook.  The hook is taken as constructed with  *)
(* its one callback, on_shutdown_requested (__init__, line 51); app.py     *)
(* 98-101 passes a second keyword, on_review_requested, which __init__     *)
(* does not accept.  The window procedure runs on the hook thread, one     *)
(* message at a time; the WM_QUERYENDSESSION handler is three steps        *)
(* (handler.step), because the thread it starts runs beside it.  A ctypes  *)
(* call inside try/except returns or raises: ok is that outcome.           *)
(***************************************************************************)
MaxThreads == 2       \* _safe_callback threads started in one process
MaxSessions == 2      \* starts of the application
MaxReleased == 2      \* released counts up to here

Window == "hwnd"
Min(a, b) == IF a < b THEN a ELSE b

CallbackThread(origin, open) ==
    [origin |-> origin, st |-> "started", open |-> open, allows |-> 0]

\* allow_shutdown(), as the change it makes; ok: the release call returns.
allow_shutdown_unguarded(ok) ==
    IF hwnd # NoWindow /\ ok
    THEN /\ shutdown_blocked' = FALSE
         /\ released' = Min(released + 1, MaxReleased)
    ELSE UNCHANGED <<shutdown_blocked, released>>

allow_shutdown(ok) ==
    IF hwnd # NoWindow /\ shutdown_blocked /\ ok
    THEN /\ shutdown_blocked' = FALSE
         /\ released' = Min(released + 1, MaxReleased)
    ELSE UNCHANGED <<shutdown_blocked, released>>

\* What a step that calls allow_shutdown() leaves in last.
AllowCall(op, ok) ==
    [op |-> op, allow |-> TRUE,
     os_call |-> hwnd # NoWindow /\ shutdown_blocked, os_ok |-> ok]

HookFrame == UNCHANGED <<ledgerVars, filter, concVars, scanVars>>

\* _wnd_proc, WM_QUERYENDSESSION, line 155: _block_shutdown(hwnd).
QueryBlock(ok) ==
    /\ proc = "on" /\ hwnd # NoWindow
    /\ handler.step = 0
    /\ ~os_ending
    /\ Len(cb) < MaxThreads
    /\ os_ending' = TRUE
    /\ IF ok
       THEN shutdown_blocked' = TRUE /\ released' = 0
       ELSE UNCHANGED <<shutdown_blocked, released>>
    /\ handler' = [step |-> 1, block_called |-> TRUE]
    /\ last' = [op |-> "block_shutdown", ok |-> ok]
    /\ UNCHANGED <<proc, sessions, marker, hwnd, cb, appVars>>
    /\ HookFrame

\* A WM_QUERYENDSESSION handler that starts the thread and asserts nothing.
QueryStart_unblocked ==
    /\ proc = "on" /\ hwnd # NoWindow
    /\ handler.step = 0
    /\ ~os_ending
    /\ Len(cb) < MaxThreads
    /\ os_ending' = TRUE
    /\ cb' = Append(cb, CallbackThread("query", TRUE))
    /\ handler' = [step |-> 2, block_called |-> FALSE]
    /\ last' = [op |-> "thread_start", origin |-> "query"]
    /\ UNCHANGED <<proc, sessions, marker, hwnd, shutdown_blocked, released, appVars>>
    /\ HookFrame

\* lines 157-159: threading.Thread(target=self._safe_callback).start().
QueryStart ==
    /\ proc = "on"
    /\ handler.step = 1
    /\ cb' = Append(cb, CallbackThread("query", TRUE))
    /\ handler' = [handler EXCEPT !.step = 2]
    /\ last' = [op |-> "thread_start", origin |-> "query"]
    /\ UNCHANGED <<proc, sessions, marker, hwnd, shutdown_blocked, os_ending,
                   released, appVars>>
    /\ HookFrame

\* line 160: return 0.  The threads the handler started run on.
QueryReturn ==
    /\ proc = "on"
    /\ handler.step = 2
    /\ handler' = HandlerIdle
    /\ cb' = [i \in 1..Len(cb) |->
                IF cb[i].st = "started" THEN [cb[i] EXCEPT !.open = FALSE] ELSE cb[i]]
    /\ last' = [op |-> "query_return", result |-> 0]
    /\ UNCHANGED <<proc, sessions, marker, hwnd, shutdown_blocked, os_ending,
                   released, appVars>>
    /\ HookFrame

\* An _emergency_save that writes nothing.
emergency_save_skipped(write_ok) == marker

\* _emergency_save(): the write of the marker succeeds or raises.
emergency_save(write_ok) == marker \/ write_ok

\* WM_ENDSESSION, lines 162-166.  wparam FALSE: the end of the session was
\* cancelled.  wparam TRUE: the session ends, and the process with it.
\* The hook thread dispatches messages for as long as its window exists,
\* also while the UI thread is in _teardown.
EndSession(wparam, write_ok) ==
    /\ proc \in {"on", "teardown"} /\ hwnd # NoWindow
    /\ handler.step = 0
    /\ os_ending
    /\ os_ending' = FALSE
    /\ IF wparam
       THEN marker' = emergency_save(write_ok) /\ proc' = "off"
       ELSE UNCHANGED <<marker, proc>>
    /\ last' = [op |-> "WM_ENDSESSION", wparam |-> wparam, write_ok |-> write_ok]
    /\ UNCHANGED <<sessions, hwnd, shutdown_blocked, handler, cb, released, appVars>>
    /\ HookFrame

\* A WM_USER_SHOW_REVIEW handler that also asserts the block.
ShowReview_blocking ==
    /\ proc = "on" /\ hwnd # NoWindow
    /\ handler.step = 0
    /\ Len(cb) < MaxThreads
    /\ cb' = Append(cb, CallbackThread("manual", FALSE))
    /\ shutdown_blocked' = TRUE
    /\ last' = [op |-> "WM_USER_SHOW_REVIEW"]
    /\ UNCHANGED <<proc, sessions, marker, hwnd, os_ending, handler, released, appVars>>
    /\ HookFrame

\* WM_USER_SHOW_REVIEW, lines 168-173: posted by request_review() or by a
\* second instance of the application (__main__.py).
ShowReview ==
    /\ proc = "on" /\ hwnd # NoWindow
    /\ handler.step = 0
    /\ Len(cb) < MaxThreads
    /\ cb' = Append(cb, CallbackThread("manual", FALSE))
    /\ last' = [op |-> "WM_USER_SHOW_REVIEW"]
    /\ UNCHANGED <<proc, sessions, marker, hwnd, shutdown_blocked, os_ending,
                   handler, released, appVars>>
    /\ HookFrame


\* _safe_callback, lines 193-196: self._callback() returns.
CallbackReturns(i) ==
    /\ proc = "on"
    /\ cb[i].st = "started"
    /\ cb' = [cb EXCEPT ![i].st = "returned"]
    /\ last' = [op |-> "callback_returned", origin |-> cb[i].origin]
    /\ UNCHANGED <<proc, sessions, marker, hwnd, shutdown_blocked, os_ending,
                   handler, released, appVars>>
    /\ HookFrame

\* A _safe_callback that logs the exception and does nothing more.
CallbackRaises_logged(i, ok) ==
    /\ proc = "on"
    /\ cb[i].st = "started"
    /\ cb' = [cb EXCEPT ![i].st = "raised"]
    /\ last' = [op |-> "callback_raised", allow |-> FALSE, os_call |-> FALSE,
                os_ok |-> ok, origin |-> cb[i].origin]
    /\ UNCHANGED <<proc, sessions, marker, hwnd, shutdown_blocked, os_ending,
                   handler, released, appVars>>
    /\ HookFrame

\* _safe_callback, lines 197-200: self._callback() raises an Exception.
CallbackRaises(i, ok) ==
    /\ proc = "on"
    /\ cb[i].st = "started"
    /\ cb' = [cb EXCEPT ![i].st = "raised", ![i].allows = @ + 1]
    /\ allow_shutdown(ok)
    /\ last' = [origin |-> cb[i].origin] @@ AllowCall("callback_raised", ok)
    /\ UNCHANGED <<proc, sessions, marker, hwnd, os_ending, handler, appVars>>
    /\ HookFrame

\* allow_shutdown() called by the owner of the hook, from any thread.
AllowShutdown(ok) ==
    /\ proc = "on"
    /\ allow_shutdown(ok)
    /\ last' = AllowCall("allow_shutdown", ok)
    /\ UNCHANGED <<proc, sessions, marker, hwnd, os_ending, handler, cb, appVars>>
    /\ HookFrame

\* app.py, _check_interrupted_flag: the marker is reported when it exists,
\* then unlinked; an OSError of unlink is passed over.
check_interrupted_flag(unlink_ok) == marker /\ ~unlink_ok

\* app.py, run(): a process starts.  created: run_message_loop made the
\* hidden window (otherwise it logged the failure and _hwnd stays None).
Start(created, unlink_ok) ==
    /\ proc = "off"
    /\ sessions < MaxSessions
    /\ sessions' = sessions + 1
    /\ proc' = "on"
    /\ marker' = check_interrupted_flag(unlink_ok)
    /\ hwnd' = IF created THEN Window ELSE NoWindow
    /\ shutdown_blocked' = FALSE
    /\ os_ending' = FALSE
    /\ handler' = HandlerIdle
    /\ cb' = <<>>
    /\ released' = 0
    /\ ui_queue' = <<>>
    /\ auto_review' = TRUE
    /\ cleanup_window' = NoWindow
    /\ scan_pc' = "scanning"
    /\ monitor' = NoMonitor
    /\ observers' = {}
    /\ last' = [op |-> "run", reported |-> marker, unlink_ok |-> unlink_ok]
    /\ HookFrame

(***************************************************************************)
(* SpecHook: the hook with its surroundings left free.  The callback is    *)
(* any callable: an invocation returns, raises, or does neither; the owner *)
(* may call allow_shutdown() at any time.                                  *)
(***************************************************************************)
InitHook ==
    /\ snapshot = EmptyTable
    /\ new_files = EmptyTable
    /\ filter = FilterEngine(CHOOSE c \in UserConfigs : ~c.show_hidden_files)
    /\ last = NoOp
    /\ ConcIdle
    /\ ProcessOff
    /\ ScanIdle

NextHook ==
    \/ \E created, unlink_ok \in BOOLEAN : Start(created, unlink_ok)
    \/ \E ok \in BOOLEAN : QueryBlock(ok)
    \/ QueryStart
    \/ QueryReturn
    \/ \E wparam, write_ok \in BOOLEAN : EndSession(wparam, write_ok)
    \/ ShowReview
    \/ \E i \in 1..Len(cb) : CallbackReturns(i)
    \/ \E i \in 1..Len(cb) : \E ok \in BOOLEAN : CallbackRaises(i, ok)
    \/ \E ok \in BOOLEAN : AllowShutdown(ok)

SpecHook == InitHook /\ [][NextHook]_vars


(***************************************************************************)
(* Claims about the shutdown hook, checked under SpecHook.                 *)
(***************************************************************************)
AllowStep == "allow" \in DOMAIN last' /\ last'.allow

\* C5, as stated: when the review callback raises while the block is
\* asserted, the hook's handling of the failure releases the block.
C5_RaisedCallbackReleasesBlock ==
    [][(last'.op = "callback_raised" /\ shutdown_blocked) => ~shutdown_blocked']_vars

\* C6, as stated: every invocation of the review callback that raises, on a
\* thread a termination query started, has invoked allow_shutdown() exactly
\* once and did so before the handler of that query returned.
C6_AllowBeforeHandlerReturns ==
    \A i \in 1..Len(cb) :
        (cb[i].origin = "query" /\ cb[i].st = "raised") =>
            (cb[i].allows = 1 /\ cb[i].open)

\* C6, amended: every invocation of the review callback that raises has
\* invoked allow_shutdown() exactly once, on its own thread; an invocation
\* that returned or is still running has not invoked it.  (The handler of
\* the query does not wait for it: cb[i].open may be FALSE.)
C6_RaisedCallbackAllowsOnce ==
    \A i \in 1..Len(cb) :
        cb[i].allows = IF cb[i].st = "raised" THEN 1 ELSE 0

C6_Witness ==
    /\ Len(cb) = 2
    /\ \A i \in 1..2 : cb[i].st = "raised"
    /\ \E i \in 1..2 : cb[i].origin = "query" /\ ~cb[i].open

\* C7, as stated: a call of allow_shutdown() made while the block is
\* asserted clears the blocked flag.
C7_FirstCallClearsFlag ==
    [][(AllowStep /\ hwnd # NoWindow /\ shutdown_blocked) => ~shutdown_blocked']_vars

\* C7, amended: a call of allow_shutdown() made while the window exists and
\* the block is asserted calls the release of the operating system; if that
\* call returns, the flag is cleared, and if it raises, nothing changes (the
\* next call tries again).  A call made with no block asserted or with no
\* window makes no release call and changes nothing.  So after one
\* assertion at most one release call returns.
C7_AllowShutdownOnce ==
    /\ [][AllowStep =>
            /\ last'.os_call = (hwnd # NoWindow /\ shutdown_blocked)
            /\ IF last'.os_call /\ last'.os_ok
               THEN ~shutdown_blocked' /\ released' = released + 1
               ELSE UNCHANGED <<shutdown_blocked, released>>
            /\ UNCHANGED <<hwnd, handler, os_ending, marker, proc>>]_vars
    /\ [](released <= 1)

C7_Witness ==
    /\ last.op = "allow_shutdown"
    /\ hwnd # NoWindow
    /\ ~last.os_call
    /\ released = 1

\* C8, as stated: when the handler of a termination query starts the
\* review callback, the block is asserted.
C8_BlockAssertedAtThreadStart ==
    [][(last'.op = "thread_start" /\ last'.origin = "query") => shutdown_blocked]_vars

\* C8, amended: on every termination query the handler calls
\* _block_shutdown before it starts the review callback; that call asserts
\* the block unless the call of the operating system raises, and then the
\* flag is left as it was.  The callback runs on a thread of its own, and
\* the handler returns 0 ("blocked") whatever that thread does.
C8_QueryHandling ==
    /\ [][/\ last'.op = "block_shutdown" =>
                /\ shutdown_blocked' = (shutdown_blocked \/ last'.ok)
                /\ cb' = cb
          /\ (last'.op = "thread_start" /\ last'.origin = "query") =>
                /\ handler.block_called
                /\ cb' = Append(cb, CallbackThread("query", TRUE))
                /\ shutdown_blocked' = shutdown_blocked
          /\ last'.op = "query_return" => last'.result = 0]_vars
    /\ [](handler.step = 2 => ENABLED QueryReturn)

C8_Witness ==
    /\ last.op = "query_return"
    /\ shutdown_blocked
    /\ \E i \in 1..Len(cb) : cb[i].origin = "query" /\ cb[i].st = "started"

\* C9: the handler of a manual review request starts the callback on a
\* thread of its own, exactly as the handler of a termination query does,
\* and leaves the blocked flag as it is; a callback that raises is handled
\* the same way whichever request started it; and the flag is only ever set
\* by _block_shutdown, which the manual path never calls.
C9_ManualReviewAssertsNoBlock ==
    [][/\ last'.op = "WM_USER_SHOW_REVIEW" =>
            /\ shutdown_blocked' = shutdown_blocked
            /\ released' = released
            /\ handler' = handler
            /\ cb' = Append(cb, CallbackThread("manual", FALSE))
       /\ last'.op = "callback_raised" => last'.allow
       /\ (shutdown_blocked' /\ ~shutdown_blocked) => last'.op = "block_shutdown"]_vars

C9_Witness ==
    /\ last.op = "WM_USER_SHOW_REVIEW"
    /\ ~shutdown_blocked
    /\ cb[Len(cb)] = CallbackThread("manual", FALSE)

\* C10, as stated: after a forced end of the session the marker exists, and
\* after the next start it does not.
C10_MarkerWrittenThenCleared ==
    [][/\ (last'.op = "WM_ENDSESSION" /\ last'.wparam) => marker'
       /\ last'.op = "run" => ~marker']_vars

\* C10, amended: a forced end of the session attempts to write the marker:
\* it exists afterwards if the write succeeded or it existed before.  The
\* next start reports the marker exactly when it exists and unlinks it; it
\* is gone afterwards unless the unlink raised OSError, and then the start
\* after that one reports it again.
C10_InterruptedMarker ==
    [][/\ (last'.op = "WM_ENDSESSION" /\ last'.wparam) =>
            /\ marker' = (marker \/ last'.write_ok)
            /\ proc' = "off"
       /\ (last'.op = "WM_ENDSESSION" /\ ~last'.wparam) => marker' = marker
       /\ last'.op = "run" =>
            /\ last'.reported = marker
            /\ marker' = (marker /\ ~last'.unlink_ok)
       /\ last'.op \notin {"WM_ENDSESSION", "run"} => marker' = marker]_vars

C10_Witness ==
    /\ last.op = "run"
    /\ last.reported
    /\ ~marker
    /\ sessions = 2


(***************************************************************************)
(* app.py: SessionCleanApp, the review window.  The hook's callback is     *)
(* _on_shutdown_requested; whatever touches the window runs on the UI      *)
(* thread, as a call scheduled with root.after.  A scheduled call is the   *)
(* is_shutdown it will pass to _show_cleanup.                              *)
(***************************************************************************)
MaxQueue == 1         \* 'Review Files Now' requests waiting in the UI queue
MaxMonitors == 2      \* FileMonitors with running watches at one time

ReviewWindow(is_shutdown) == IF is_shutdown THEN "shutdown" ELSE "review"

\* _show_cleanup, lines 190-218: a window that is showing is focused and
\* stays as it was made; otherwise one is made for this is_shutdown.
show_cleanup(is_shutdown) ==
    IF cleanup_window # NoWindow THEN cleanup_window ELSE ReviewWindow(is_shutdown)

AppFrame == UNCHANGED <<ledgerVars, filter, concVars, scanVars>>

\* FileMonitor.stop(), monitor.py 113-123: the watches of m are stopped.
\* (self._monitor keeps referring to m.)
Stopped(m) == observers \ {m}

\* A FileMonitor that is replaced without being stopped keeps its watches
\* for the rest of the process; the model follows up to MaxMonitors of them.
MonitorRoom == Cardinality(observers) < MaxMonitors

\* FileMonitor(...): an object that is none of the live ones.
NewMonitor ==
    LET live == observers \cup {monitor}
        free == {m \in 1..(Cardinality(live) + 1) : m \notin live}
    IN CHOOSE m \in free : \A k \in free : m <= k

\* _show_cleanup, lines 192-201: when no window is showing, the monitor the
\* application holds, if any, is stopped before the window is made.
show_cleanup_observers ==
    IF cleanup_window # NoWindow \/ monitor = NoMonitor
    THEN observers
    ELSE Stopped(monitor)

\* _teardown, lines 281-282.
teardown_observers == IF monitor = NoMonitor THEN observers ELSE Stopped(monitor)

\* _on_shutdown_requested, lines 164-169, run by _safe_callback on thread i.
on_shutdown_requested(i) ==
    /\ proc = "on"
    /\ cb[i].st = "started"
    /\ cb' = [cb EXCEPT ![i].st = "returned"]
    /\ ui_queue' = Append(ui_queue, TRUE)
    /\ last' = [op |-> "callback_returned", origin |-> cb[i].origin]
    /\ UNCHANGED <<proc, sessions, marker, hwnd, shutdown_blocked, os_ending,
                   handler, released, auto_review, cleanup_window,
                   scan_pc, monitor, observers>>
    /\ AppFrame

\* _on_review_now, lines 171-175, called by the tray menu.
on_review_now ==
    /\ proc = "on"
    /\ Len(ui_queue) < MaxQueue
    /\ ui_queue' = Append(ui_queue, FALSE)
    /\ last' = [op |-> "on_review_now"]
    /\ UNCHANGED <<hookVars, auto_review, cleanup_window, scan_pc, monitor, observers>>
    /\ AppFrame

\* run(), line 77: the review opened 2000 ms after the start.
AutoReview ==
    /\ proc = "on"
    /\ auto_review
    /\ auto_review' = FALSE
    /\ cleanup_window' = show_cleanup(FALSE)
    /\ observers' = show_cleanup_observers
    /\ last' = [op |-> "show_cleanup", is_shutdown |-> FALSE,
                opened |-> cleanup_window = NoWindow]
    /\ UNCHANGED <<hookVars, ui_queue, scan_pc, monitor>>
    /\ AppFrame

\* The UI thread runs the next scheduled _show_cleanup.
UiRun ==
    /\ proc = "on"
    /\ ui_queue # <<>>
    /\ ui_queue' = Tail(ui_queue)
    /\ cleanup_window' = show_cleanup(Head(ui_queue))
    /\ observers' = show_cleanup_observers
    /\ last' = [op |-> "show_cleanup", is_shutdown |-> Head(ui_queue),
                opened |-> cleanup_window = NoWindow]
    /\ UNCHANGED <<hookVars, auto_review, scan_pc, monitor>>
    /\ AppFrame

\* _on_cleanup_complete, lines 232-255: the user finalized the review (or
\* closed the window).  is_shutdown is the one the window was made with; if
\* set, allow_shutdown() and _teardown(), which ends the process; if not,
\* a new FileMonitor is made and started.
on_cleanup_complete(ok) ==
    /\ proc = "on"
    /\ cleanup_window # NoWindow
    /\ cleanup_window = "shutdown" \/ MonitorRoom
    /\ cleanup_window' = NoWindow
    /\ IF cleanup_window = "shutdown"
       THEN /\ allow_shutdown(ok)
            /\ proc' = "off"
            /\ observers' = teardown_observers
            /\ UNCHANGED monitor
            /\ last' = [is_shutdown |-> TRUE] @@ AllowCall("on_cleanup_complete", ok)
       ELSE /\ UNCHANGED <<shutdown_blocked, released, proc>>
            /\ monitor' = NewMonitor
            /\ observers' = observers \cup {NewMonitor}
            /\ last' = [op |-> "on_cleanup_complete", is_shutdown |-> FALSE,
                        allow |-> FALSE, os_call |-> FALSE, os_ok |-> ok]
    /\ UNCHANGED <<sessions, marker, hwnd, os_ending, handler, cb,
                   ui_queue, auto_review, scan_pc>>
    /\ AppFrame

\* _on_config_saved, lines 257-272: the settings window saved new_config.
\* The monitor is restarted only if the application holds one.
on_config_saved(new_config) ==
    /\ proc = "on"
    /\ filter' = FilterEngine(new_config)
    /\ monitor = NoMonitor \/ Cardinality(Stopped(monitor)) < MaxMonitors
    /\ IF monitor = NoMonitor
       THEN UNCHANGED <<monitor, observers>>
       ELSE /\ monitor' = NewMonitor
            /\ observers' = Stopped(monitor) \cup {NewMonitor}
    /\ last' = [op |-> "on_config_saved"]
    /\ UNCHANGED <<hookVars, ui_queue, auto_review, cleanup_window, scan_pc>>
    /\ UNCHANGED <<ledgerVars, concVars, scanVars>>

\* _scan_then_monitor, lines 123-128, on the Scanner thread: take_snapshot()
\* has returned, or raised and been logged.
ScanEnds ==
    /\ proc = "on"
    /\ scan_pc = "scanning"
    /\ scan_pc' = "scanned"
    /\ last' = [op |-> "take_snapshot"]
    /\ UNCHANGED <<hookVars, ui_queue, auto_review, cleanup_window, monitor, observers>>
    /\ AppFrame

\* lines 131-136: self._monitor = FileMonitor(...).
ScanMakesMonitor ==
    /\ proc \in {"on", "exiting"}
    /\ scan_pc = "scanned"
    /\ scan_pc' = "made"
    /\ monitor' = NewMonitor
    /\ last' = [op |-> "FileMonitor"]
    /\ UNCHANGED <<hookVars, ui_queue, auto_review, cleanup_window, observers>>
    /\ AppFrame

\* line 137: self._monitor.start(), on whatever self._monitor is by now.
ScanStartsMonitor ==
    /\ proc \in {"on", "exiting"}
    /\ scan_pc = "made"
    /\ scan_pc' = "done"
    /\ observers' = observers \cup {monitor}
    /\ last' = [op |-> "monitor_start"]
    /\ UNCHANGED <<hookVars, ui_queue, auto_review, cleanup_window, monitor>>
    /\ AppFrame

\* _on_exit, lines 182-185: the tray's Exit; _teardown() ends the process.
on_exit ==
    /\ proc = "on"
    /\ proc' = "off"
    /\ observers' = teardown_observers
    /\ last' = [op |-> "on_exit"]
    /\ UNCHANGED <<sessions, marker, hwnd, shutdown_blocked, os_ending, handler,
                   cb, released, ui_queue, auto_review, cleanup_window,
                   scan_pc, monitor>>
    /\ AppFrame

(***************************************************************************)
(* SpecApp: the hook wired to the application.                             *)
(***************************************************************************)
NextApp ==
    \/ \E created, unlink_ok \in BOOLEAN : Start(created, unlink_ok)
    \/ \E ok \in BOOLEAN : QueryBlock(ok)
    \/ QueryStart
    \/ QueryReturn
    \/ \E wparam, write_ok \in BOOLEAN : EndSession(wparam, write_ok)
    \/ ShowReview
    \/ \E i \in 1..Len(cb) : on_shutdown_requested(i)
    \/ \E i \in 1..Len(cb) : \E ok \in BOOLEAN : CallbackRaises(i, ok)
    \/ on_review_now
    \/ AutoReview
    \/ UiRun
    \/ \E ok \in BOOLEAN : on_cleanup_complete(ok)
    \/ on_exit

SpecApp == InitHook /\ [][NextApp]_vars

(***************************************************************************)
(* SpecShutdown: the end of a shutdown review, thread by thread.  The UI   *)
(* thread runs _on_cleanup_complete: allow_shutdown(), then _teardown(),   *)
(* whose last calls post WM_CLOSE to the hook's window and leave the main  *)
(* loop.  The hook thread keeps handling the messages of its window until  *)
(* the process is gone.                                                    *)
(***************************************************************************)
\* _on_cleanup_complete with is_shutdown, lines 239-245: the window is
\* dropped and the block released; _teardown() is entered.
cleanup_complete_release(ok) ==
    /\ proc = "on"
    /\ cleanup_window = "shutdown"
    /\ cleanup_window' = NoWindow
    /\ allow_shutdown(ok)
    /\ proc' = "teardown"
    /\ last' = [is_shutdown |-> TRUE] @@ AllowCall("on_cleanup_complete", ok)
    /\ UNCHANGED <<sessions, marker, hwnd, os_ending, handler, cb,
                   ui_queue, auto_review, scan_pc, monitor, observers>>
    /\ AppFrame

\* _teardown, lines 277-292, has run and run() returns: the process ends.
teardown_returns ==
    /\ proc = "teardown"
    /\ proc' = "off"
    /\ observers' = teardown_observers
    /\ last' = [op |-> "teardown"]
    /\ UNCHANGED <<sessions, marker, hwnd, shutdown_blocked, os_ending, handler,
                   cb, released, ui_queue, auto_review, cleanup_window,
                   scan_pc, monitor>>
    /\ AppFrame

\* _on_cleanup_complete of a window made with is_shutdown False
cleanup_complete_continue ==
    /\ cleanup_window = ReviewWindow(FALSE)
    /\ on_cleanup_complete(TRUE)

NextShutdown ==
    \/ \E created, unlink_ok \in BOOLEAN : Start(created, unlink_ok)
    \/ \E ok \in BOOLEAN : QueryBlock(ok)
    \/ QueryStart
    \/ QueryReturn
    \/ \E wparam, write_ok \in BOOLEAN : EndSession(wparam, write_ok)
    \/ \E i \in 1..Len(cb) : on_shutdown_requested(i)
    \/ AutoReview
    \/ UiRun
    \/ cleanup_complete_continue
    \/ \E ok \in BOOLEAN : cleanup_complete_release(ok)
    \/ teardown_returns

SpecShutdown == InitHook /\ [][NextShutdown]_vars

(***************************************************************************)
(* SpecRelease: allow_shutdown() statement by statement.  It takes no lock *)
(* (shutdown_hook.py 77-85): a thread reads _hwnd and _shutdown_blocked in *)
(* line 79 and, if both are set, calls ShutdownBlockReasonDestroy in line  *)
(* 81 and clears the flag in line 82.  Its callers are the UI thread, in   *)
(* _on_cleanup_complete of a shutdown review, and the thread of a callback *)
(* that raised, in _safe_callback.                                         *)
(***************************************************************************)
AllowTest == hwnd # NoWindow /\ shutdown_blocked

ReleaseFrame ==
    UNCHANGED <<ledgerVars, filter, concVars, monitored_paths, fs, is_scanning,
                active_paths, stopping, staging>>

\* _safe_callback, lines 197-200, on thread i: self._callback() raises, and
\* allow_shutdown() makes the test of line 79.
callback_allow_tests(i) ==
    /\ proc \in {"on", "teardown"}
    /\ cb[i].st = "started"
    /\ cb' = [cb EXCEPT ![i].st = "raised", ![i].allows = @ + 1]
    /\ allowing' = IF AllowTest THEN [allowing EXCEPT !.cb = @ \cup {i}] ELSE allowing
    /\ last' = [op |-> "allow_test", thread |-> "callback", passed |-> AllowTest,
                others |-> allowing # NotAllowing]
    /\ UNCHANGED <<proc, sessions, marker, hwnd, shutdown_blocked, os_ending, handler,
                   released, appVars>>
    /\ ReleaseFrame

\* lines 80-85 on thread i: the release call, and the flag if it returned.
callback_allow_releases(i, ok) ==
    /\ proc \in {"on", "teardown"}
    /\ i \in allowing.cb
    /\ allow_shutdown_unguarded(ok)
    /\ allowing' = [allowing EXCEPT !.cb = @ \ {i}]
    /\ last' = [op |-> "allow_release", thread |-> "callback", os_ok |-> ok]
    /\ UNCHANGED <<proc, sessions, marker, hwnd, os_ending, handler, cb, appVars>>
    /\ ReleaseFrame

\* _on_cleanup_complete with is_shutdown, lines 239-245, on the UI thread:
\* the window is dropped and allow_shutdown() makes the test of line 79; if
\* it fails, allow_shutdown() returns and _teardown() is entered.
ui_allow_tests ==
    /\ proc = "on"
    /\ cleanup_window = "shutdown"
    /\ ~allowing.ui
    /\ cleanup_window' = NoWindow
    /\ allowing' = [allowing EXCEPT !.ui = AllowTest]
    /\ proc' = IF AllowTest THEN proc ELSE "teardown"
    /\ last' = [op |-> "allow_test", thread |-> "ui", passed |-> AllowTest,
                others |-> allowing # NotAllowing]
    /\ UNCHANGED <<sessions, marker, hwnd, shutdown_blocked, os_ending, handler, cb,
                   released, ui_queue, auto_review, scan_pc, monitor, observers>>
    /\ ReleaseFrame

\* lines 80-85 on the UI thread, then _teardown() is entered.
ui_allow_releases(ok) ==
    /\ proc = "on"
    /\ allowing.ui
    /\ allow_shutdown_unguarded(ok)
    /\ allowing' = [allowing EXCEPT !.ui = FALSE]
    /\ proc' = "teardown"
    /\ last' = [op |-> "allow_release", thread |-> "ui", os_ok |-> ok]
    /\ UNCHANGED <<sessions, marker, hwnd, os_ending, handler, cb, appVars>>
    /\ ReleaseFrame

NextRelease ==
    \/ \E created \in BOOLEAN : sessions = 0 /\ Start(created, TRUE)
    \/ \E ok \in BOOLEAN : QueryBlock(ok)
    \/ QueryStart
    \/ QueryReturn
    \/ ShowReview
    \/ \E i \in 1..Len(cb) : on_shutdown_requested(i)
    \/ UiRun
    \/ \E i \in 1..Len(cb) : callback_allow_tests(i)
    \/ \E i \in 1..Len(cb) : \E ok \in BOOLEAN : callback_allow_releases(i, ok)
    \/ ui_allow_tests
    \/ \E ok \in BOOLEAN : ui_allow_releases(ok)

SpecRelease == InitHook /\ [][NextRelease]_vars

\* C38, as stated: after one assertion of the block, however the calls of
\* allow_shutdown() on the UI thread and on a callback thread interleave,
\* at most one release call is made to the operating system, and when the
\* calls have returned after a release that succeeded the flag is false.
C38_ConcurrentReleaseOnce ==
    /\ released <= 1
    /\ (allowing = NotAllowing /\ released > 0) => ~shutdown_blocked

(***************************************************************************)
(* SpecSession: the Scanner thread, the monitor and the review window of   *)
(* one application, with no termination query arriving.                    *)
(***************************************************************************)
NextSession ==
    \/ \E created, unlink_ok \in BOOLEAN : Start(created, unlink_ok)
    \/ ScanEnds
    \/ ScanMakesMonitor
    \/ ScanStartsMonitor
    \/ on_review_now
    \/ AutoReview
    \/ UiRun
    \/ \E ok \in BOOLEAN : on_cleanup_complete(ok)
    \/ \E c \in UserConfigs : on_config_saved(c)
    \/ on_exit

SpecSession == InitHook /\ [][NextSession]_vars

(***************************************************************************)
(* Claims about the scan, the monitor and the review, checked under        *)
(* SpecSession.                                                            *)
(***************************************************************************)
\* C11, as stated: whenever a FileMonitor starts its watches, the baseline
\* scan of this process has completed.
C11_MonitorStartsAfterScan ==
    [][(proc' = "on" /\ observers' \ observers # {})
          => scan_pc \notin {"idle", "scanning"}]_vars

\* C12, as stated: while a review window is open no watch is running.
C12_MonitorPausedDuringReview ==
    (proc = "on" /\ cleanup_window # NoWindow) => observers = {}

\* C37, as stated: at any time at most one FileMonitor the application has
\* made has running watches (a running FileMonitor holds one watch for each
\* active root), and a step that puts another FileMonitor in self._monitor
\* leaves the one that was there without running watches.
C37_OneLiveWatchPerRoot ==
    [][/\ Cardinality(observers') <= 1
       /\ (monitor' # monitor /\ proc' = "on") => monitor \notin observers']_vars

(***************************************************************************)
(* SpecLedger: database.py called by one thread, as tests/test_database.py *)
(* calls it, beside the monitor's delete handler.  Both tables have path   *)
(* as PRIMARY KEY (lines 48 and 54), so a table is a function of the path. *)
(* The arguments of record_new_file are the caller's: any size, any        *)
(* created_at; the file type is the path's, and for one path also the      *)
(* default ''.                                                             *)
(***************************************************************************)
Stamps == 0..(MaxTime + 1)
FileTypes(path) ==
    IF path = PReport THEN {"", get_file_type(path)} ELSE {get_file_type(path)}
Parent(p) == SubSeq(p, 1, Len(p) - 1)
LedgerFrame == UNCHANGED <<filter, notMonitorVars>>

record_new_file(path, size, created_at, file_type) ==
    /\ new_files' = InsertOrReplace(new_files, path, size, created_at, file_type)
    /\ last' = [op |-> "record_new_file", path |-> path, size |-> size,
                created_at |-> created_at, file_type |-> file_type,
                tracked |-> path \in DOMAIN new_files]
    /\ UNCHANGED snapshot
    /\ LedgerFrame

remove_new_file(path) ==
    /\ new_files' = DeleteRow(new_files, path)
    /\ last' = [op |-> "remove_new_file", path |-> path,
                tracked |-> path \in DOMAIN new_files]
    /\ UNCHANGED snapshot
    /\ LedgerFrame

\* initialize without its DELETE FROM snapshot
initialize_new_files ==
    /\ new_files' = EmptyTable
    /\ last' = [op |-> "initialize",
                cleared |-> snapshot # EmptyTable /\ new_files # EmptyTable]
    /\ UNCHANGED snapshot
    /\ LedgerFrame

\* DELETE FROM snapshot; DELETE FROM new_files (the tables exist already or
\* are created empty)
initialize ==
    /\ snapshot' = EmptyTable
    /\ new_files' = EmptyTable
    /\ last' = [op |-> "initialize",
                cleared |-> snapshot # EmptyTable /\ new_files # EmptyTable]
    /\ LedgerFrame

\* SELECT ... ORDER BY created_at DESC: the paths of the rows, newest first;
\* rows of equal created_at come in any order
RECURSIVE OrderByCreatedAtAsc(_)
OrderByCreatedAtAsc(tbl) ==
    IF DOMAIN tbl = {} THEN {<<>>}
    ELSE LET oldest == {p \in DOMAIN tbl :
                           \A q \in DOMAIN tbl : tbl[p].created_at <= tbl[q].created_at}
         IN UNION {{<<p>> \o s : s \in OrderByCreatedAtAsc(DeleteRow(tbl, p))} : p \in oldest}

RECURSIVE OrderByCreatedAtDesc(_)
OrderByCreatedAtDesc(tbl) ==
    IF DOMAIN tbl = {} THEN {<<>>}
    ELSE LET newest == {p \in DOMAIN tbl :
                           \A q \in DOMAIN tbl : tbl[q].created_at <= tbl[p].created_at}
         IN UNION {{<<p>> \o s : s \in OrderByCreatedAtDesc(DeleteRow(tbl, p))} : p \in newest}

\* the dict get_all_new_files builds of one row
RowDict(tbl, p) ==
    [path |-> p, name |-> Name(p), size |-> tbl[p].size,
     created_at |-> tbl[p].created_at, file_type |-> tbl[p].file_type,
     directory |-> Parent(p)]

get_all_new_files ==
    \E order \in OrderByCreatedAtDesc(new_files) :
        /\ last' = [op |-> "get_all_new_files",
                    rows |-> [i \in 1..Len(order) |-> RowDict(new_files, order[i])]]
        /\ UNCHANGED <<snapshot, new_files>>
        /\ LedgerFrame

InitLedger ==
    /\ snapshot = [p \in {PPhoto} |-> SnapshotStat]
    /\ new_files = EmptyTable
    /\ filter = FilterEngine(CHOOSE c \in UserConfigs : ~c.show_hidden_files)
    /\ last = NoOp
    /\ ConcIdle
    /\ ProcessOff
    /\ ScanIdle

NextLedger ==
    \/ \E path \in Paths, size \in Sizes, created_at \in Stamps :
          \E file_type \in FileTypes(path) :
              record_new_file(path, size, created_at, file_type)
    \/ \E path \in Paths : remove_new_file(path)
    \/ on_deleted
    \/ get_all_new_files
    \/ initialize

SpecLedger == InitLedger /\ [][NextLedger]_vars

(***************************************************************************)
(* Claims about the ledger's operations, checked under SpecLedger.         *)
(***************************************************************************)
\* C13  New-file records are keyed by path: record_new_file on a recorded
\* path replaces its size, created_at and type and leaves the number of
\* records as it was; on a path with no record (never recorded, or removed)
\* it adds one record; every other record is left as it was.
C13_RecordKeyedByPath ==
    [][last'.op = "record_new_file" =>
          LET p == last'.path
          IN  /\ DOMAIN new_files' = DOMAIN new_files \cup {p}
              /\ new_files'[p] = [size |-> last'.size,
                                  created_at |-> last'.created_at,
                                  file_type |-> last'.file_type]
              /\ Cardinality(DOMAIN new_files') =
                     Cardinality(DOMAIN new_files) + (IF last'.tracked THEN 0 ELSE 1)
              /\ \A q \in DOMAIN new_files \ {p} : new_files'[q] = new_files[q]]_vars

\* record_new_file has replaced the record of a path, beside another record
C13_Witness ==
    /\ last.op = "record_new_file"
    /\ last.tracked
    /\ last.file_type = "pdf"
    /\ last.created_at = MaxTime + 1
    /\ Cardinality(DOMAIN new_files) > 1

\* C14  Deletion is idempotent and local: remove_new_file(p), and the
\* monitor's handling of a non-directory delete event on p, remove the
\* record of p if there is one and change nothing otherwise; every other
\* new-file record and the whole baseline stay as they were; the delete
\* event is handled without a filter check, so the record of a path the
\* filter excludes is removed too.
C14_DeleteIdempotentLocal ==
    [][(\/ last'.op = "remove_new_file"
        \/ last'.op = "on_deleted" /\ ~last'.is_directory) =>
          LET p == last'.path
          IN  /\ snapshot' = snapshot
              /\ p \notin DOMAIN new_files'
              /\ DOMAIN new_files' = DOMAIN new_files \ {p}
              /\ \A q \in DOMAIN new_files' : new_files'[q] = new_files[q]
              /\ (p \notin DOMAIN new_files => new_files' = new_files)]_vars

\* the delete event of a tracked path the filter excludes has been handled,
\* with the baseline and another record in place
C14_Witness ==
    /\ last.op = "on_deleted"
    /\ ~last.is_directory
    /\ last.tracked
    /\ ~should_include(filter, last.path, "normal", MaxSize)
    /\ snapshot # EmptyTable
    /\ new_files # EmptyTable

\* C16  initialize establishes a clean session: from any state of the two
\* tables it leaves both empty, and a second initialize leaves what the
\* first one left.
C16_InitializeCleanSession ==
    [][last'.op = "initialize" =>
          /\ snapshot' = EmptyTable
          /\ new_files' = EmptyTable
          /\ (last.op = "initialize" => <<snapshot', new_files'>> = <<snapshot, new_files>>)]_vars

\* initialize has run with rows in both tables
C16_Witness ==
    /\ last.op = "initialize"
    /\ last.cleared
    /\ snapshot = EmptyTable
    /\ new_files = EmptyTable

\* C17  Newest-first listing: what get_all_new_files returns is exactly the
\* current records, one dict per path with the record's fields, in
\* non-increasing order of created_at.
C17_NewestFirstListing ==
    last.op = "get_all_new_files" =>
        LET rows == last.rows
        IN  /\ Len(rows) = Cardinality(DOMAIN new_files)
            /\ {rows[i].path : i \in 1..Len(rows)} = DOMAIN new_files
            /\ \A i \in 1..Len(rows) :
                  /\ rows[i].size = new_files[rows[i].path].size
                  /\ rows[i].created_at = new_files[rows[i].path].created_at
                  /\ rows[i].file_type = new_files[rows[i].path].file_type
            /\ \A i \in 1..Len(rows), j \in 1..Len(rows) :
                  i < j => rows[i].created_at >= rows[j].created_at

\* three records of three different times have been listed
C17_Witness ==
    /\ last.op = "get_all_new_files"
    /\ Len(last.rows) = 3
    /\ last.rows[1].created_at > last.rows[2].created_at
    /\ last.rows[2].created_at > last.rows[3].created_at

(***************************************************************************)
(* SpecBaseline: the baseline side of database.py called by one thread.    *)
(* A batch is any list of (path, mtime, size) records, the same path       *)
(* twice in one batch included.                                            *)
(***************************************************************************)
BatchPaths(file_records) == {file_records[i].path : i \in 1..Len(file_records)}

\* the batch names a path twice, or a path that has a row already
SharesPaths(tbl, file_records) ==
    \/ BatchPaths(file_records) \cap DOMAIN tbl # {}
    \/ Cardinality(BatchPaths(file_records)) < Len(file_records)

\* the batch names a path that has a row, with another mtime or size
Resubmits(tbl, file_records) ==
    \E i \in 1..Len(file_records) :
        /\ file_records[i].path \in DOMAIN tbl
        /\ tbl[file_records[i].path] #
              [mtime |-> file_records[i].mtime, size |-> file_records[i].size]

\* store_snapshot_batch with a plain INSERT: a second row for a path breaks
\* the PRIMARY KEY, executemany raises and commit is not reached
store_snapshot_batch_plain(file_records) ==
    /\ snapshot' = IF SharesPaths(snapshot, file_records)
                   THEN snapshot
                   ELSE InsertBatch(snapshot, file_records)
    /\ last' = [op |-> "store_snapshot_batch", paths |-> BatchPaths(file_records),
                shared |-> SharesPaths(snapshot, file_records),
                resubmits |-> Resubmits(snapshot, file_records),
                raised |-> SharesPaths(snapshot, file_records)]
    /\ UNCHANGED new_files
    /\ LedgerFrame

store_snapshot_batch(file_records) ==
    /\ snapshot' = InsertBatch(snapshot, file_records)
    /\ last' = [op |-> "store_snapshot_batch", paths |-> BatchPaths(file_records),
                shared |-> SharesPaths(snapshot, file_records),
                resubmits |-> Resubmits(snapshot, file_records),
                raised |-> FALSE]
    /\ UNCHANGED new_files
    /\ LedgerFrame

get_snapshot_count ==
    /\ last' = [op |-> "get_snapshot_count", count |-> Cardinality(DOMAIN snapshot)]
    /\ UNCHANGED <<snapshot, new_files>>
    /\ LedgerFrame

InitBaseline ==
    /\ snapshot = EmptyTable
    /\ new_files = EmptyTable
    /\ filter = FilterEngine(CHOOSE c \in UserConfigs : ~c.show_hidden_files)
    /\ last = NoOp
    /\ ConcIdle
    /\ ProcessOff
    /\ ScanIdle

NextBaseline ==
    \/ \E file_records \in Batches : store_snapshot_batch(file_records)
    \/ get_snapshot_count
    \/ initialize

SpecBaseline == InitBaseline /\ [][NextBaseline]_vars

(***************************************************************************)
(* Claims about the baseline insert, checked under SpecBaseline.           *)
(***************************************************************************)
\* C15  Idempotent baseline insert: store_snapshot_batch raises no error
\* for a batch that repeats an earlier batch or shares paths with the table
\* or within itself; afterwards the baseline has exactly one row for every
\* distinct path submitted so far, the rows it had are as they were, and a
\* batch of paths that all have rows changes nothing.
C15_IdempotentBaselineInsert ==
    [][last'.op = "store_snapshot_batch" =>
          /\ ~last'.raised
          /\ DOMAIN snapshot' = DOMAIN snapshot \cup last'.paths
          /\ \A q \in DOMAIN snapshot : snapshot'[q] = snapshot[q]
          /\ (last'.paths \subseteq DOMAIN snapshot => snapshot' = snapshot)]_vars

\* a batch that names one path twice, a path with a row among them, has
\* been stored
C15_Witness ==
    /\ last.op = "store_snapshot_batch"
    /\ last.shared
    /\ Cardinality(last.paths) = 1
    /\ Cardinality(DOMAIN snapshot) > 1

(***************************************************************************)
(* scanner.py: Scanner.  take_snapshot walks the active monitored paths in *)
(* order; what the walk meets on disk is fs.  os.scandir yields the        *)
(* entries of a directory in no particular order; the walk takes them in   *)
(* the order of Children, which decides only where a batch ends.           *)
(* SCANNER_BATCH_SIZE is 5000 in constants.py; it is scaled to the trees   *)
(* of the model so that a walk fills a batch.                              *)
(***************************************************************************)
SCANNER_BATCH_SIZE == 2

Children(d) ==
    CASE d = DDocs -> <<PReport, DSub, DJunk>>
      [] d = DSub -> <<PNested>>
      [] d = DJunk -> <<PJunk>>
      [] OTHER -> <<>>

\* d is a proper ancestor of e
Below(e, d) == Len(d) < Len(e) /\ SubSeq(e, 1, Len(d)) = d

\* what a walk did: the (path, mtime, size) it yielded, in order, the
\* directories it enumerated and the entries it called is_file/stat on
NoWalk == [files |-> <<>>, scanned |-> {}, statted |-> {}]
Join(a, b) ==
    [files |-> a.files \o b.files,
     scanned |-> a.scanned \cup b.scanned,
     statted |-> a.statted \cup b.statted]

\* entry.stat(follow_symlinks=False) of a readable file
StatOf(entry) == [path |-> entry, mtime |-> SnapshotStat.mtime, size |-> SnapshotStat.size]

\* _iter_files without the test of the directory's name
RECURSIVE iter_files_unpruned(_, _, _, _)
iter_files_unpruned(tree, f, root, recursive) ==
    IF tree[root] # "ok" THEN NoWalk
    ELSE LET Entry(entry) ==
                 IF tree[entry] = "absent" THEN NoWalk
                 ELSE IF entry \in ScanFiles
                 THEN [files |-> IF tree[entry] = "ok" THEN <<StatOf(entry)>> ELSE <<>>,
                       scanned |-> {}, statted |-> {entry}]
                 ELSE IF recursive
                 THEN Join([NoWalk EXCEPT !.statted = {entry}],
                           iter_files_unpruned(tree, f, entry, recursive))
                 ELSE [NoWalk EXCEPT !.statted = {entry}]
             entries == Children(root)
             Loop[i \in 0..Len(entries)] ==
                 IF i = 0 THEN [NoWalk EXCEPT !.scanned = {root}]
                 ELSE Join(Loop[i - 1], Entry(entries[i]))
         IN Loop[Len(entries)]

\* _iter_files with recursive taken as True
RECURSIVE iter_files_descending(_, _, _, _)
iter_files_descending(tree, f, root, recursive) ==
    IF tree[root] # "ok" THEN NoWalk
    ELSE LET Entry(entry) ==
                 IF tree[entry] = "absent" THEN NoWalk
                 ELSE IF entry \in ScanFiles
                 THEN [files |-> IF tree[entry] = "ok" THEN <<StatOf(entry)>> ELSE <<>>,
                       scanned |-> {}, statted |-> {entry}]
                 ELSE IF Lower(Name(entry)) \notin f.ignored_directories
                 THEN Join([NoWalk EXCEPT !.statted = {entry}],
                           iter_files_descending(tree, f, entry, recursive))
                 ELSE [NoWalk EXCEPT !.statted = {entry}]
             entries == Children(root)
             Loop[i \in 0..Len(entries)] ==
                 IF i = 0 THEN [NoWalk EXCEPT !.scanned = {root}]
                 ELSE Join(Loop[i - 1], Entry(entries[i]))
         IN Loop[Len(entries)]

\* _iter_files(root, recursive): os.scandir(root) raises for a directory
\* that is not there or not readable, and the walk of it yields nothing; a
\* file whose is_file or stat raises is passed over
RECURSIVE iter_files(_, _, _, _)
iter_files(tree, f, root, recursive) ==
    IF tree[root] # "ok" THEN NoWalk
    ELSE LET Entry(entry) ==
                 IF tree[entry] = "absent" THEN NoWalk
                 ELSE IF entry \in ScanFiles
                 THEN [files |-> IF tree[entry] = "ok" THEN <<StatOf(entry)>> ELSE <<>>,
                       scanned |-> {}, statted |-> {entry}]
                 ELSE IF recursive /\ Lower(Name(entry)) \notin f.ignored_directories
                 THEN Join([NoWalk EXCEPT !.statted = {entry}],
                           iter_files(tree, f, entry, recursive))
                 ELSE [NoWalk EXCEPT !.statted = {entry}]
             entries == Children(root)
             Loop[i \in 0..Len(entries)] ==
                 IF i = 0 THEN [NoWalk EXCEPT !.scanned = {root}]
                 ELSE Join(Loop[i - 1], Entry(entries[i]))
         IN Loop[Len(entries)]

\* the baseline after _scan_directory's loop over the files of one walk
RECURSIVE store_batches(_, _, _)
store_batches(tbl, files, batch) ==
    IF files = <<>>
    THEN IF batch # <<>> THEN InsertBatch(tbl, batch) ELSE tbl
    ELSE LET filled == Append(batch, Head(files))
         IN IF Len(filled) >= SCANNER_BATCH_SIZE
            THEN store_batches(InsertBatch(tbl, filled), Tail(files), <<>>)
            ELSE store_batches(tbl, Tail(files), filled)

\* _scan_directory(root, recursive): the baseline it leaves, the count it
\* returns, and what its walk did
scan_directory(tbl, tree, f, mp) ==
    LET walk == iter_files(tree, f, mp.path, mp.recursive)
    IN [tbl |-> store_batches(tbl, walk.files, <<>>),
        walk |-> [path |-> mp.path, recursive |-> mp.recursive,
                  count |-> Len(walk.files),
                  files |-> {walk.files[i].path : i \in 1..Len(walk.files)},
                  scanned |-> walk.scanned, statted |-> walk.statted]]

\* config.get_active_paths(): enabled, and Path(path).exists()
IsActive(mp) == mp.enabled /\ fs[mp.path] # "absent"
\* get_active_paths without its filter
get_every_path == monitored_paths

get_active_paths == SelectSeq(monitored_paths, IsActive)

\* take_snapshot's loop: the baseline, _total_files and the walks so far
RECURSIVE scan_paths(_, _, _, _)
scan_paths(acc, tree, f, remaining) ==
    IF remaining = <<>> THEN acc
    ELSE LET r == scan_directory(acc.tbl, tree, f, Head(remaining))
         IN scan_paths([tbl |-> r.tbl,
                        total_files |-> acc.total_files + r.walk.count,
                        walks |-> Append(acc.walks, r.walk)],
                       tree, f, Tail(remaining))

take_snapshot ==
    LET r == scan_paths([tbl |-> snapshot, total_files |-> 0, walks |-> <<>>],
                        fs, filter, get_active_paths)
    IN  /\ snapshot' = r.tbl
        /\ is_scanning' = FALSE
        /\ last' = [op |-> "take_snapshot", total_files |-> r.total_files,
                    walks |-> r.walks, from_empty |-> snapshot = EmptyTable]
        /\ UNCHANGED <<new_files, filter, concVars, hookVars, appVars, monitored_paths, fs,
                       active_paths, stopping, staging, allowing>>

\* the batches _scan_directory hands to store_snapshot_batch, in order
RECURSIVE batches_of(_, _)
batches_of(files, batch) ==
    IF files = <<>>
    THEN IF batch # <<>> THEN <<batch>> ELSE <<>>
    ELSE LET filled == Append(batch, Head(files))
         IN IF Len(filled) >= SCANNER_BATCH_SIZE
            THEN <<filled>> \o batches_of(Tail(files), <<>>)
            ELSE batches_of(Tail(files), filled)

RECURSIVE InsertBatches(_, _)
InsertBatches(tbl, batches) ==
    IF batches = <<>> THEN tbl
    ELSE InsertBatches(InsertBatch(tbl, Head(batches)), Tail(batches))

\* take_snapshot when store_snapshot_batch raises sqlite3.Error for the
\* j-th batch of the k-th active path: the error is no OSError, so the
\* except of lines 77-78 does not take it; it leaves take_snapshot before
\* line 80, with the paths after the k-th not walked
take_snapshot_raises ==
    \E k \in 1..Len(get_active_paths) :
        LET before == scan_paths([tbl |-> snapshot, total_files |-> 0, walks |-> <<>>],
                                 fs, filter, SubSeq(get_active_paths, 1, k - 1))
            mp == get_active_paths[k]
            batches == batches_of(iter_files(fs, filter, mp.path, mp.recursive).files, <<>>)
        IN  \E j \in 1..Len(batches) :
                /\ snapshot' = InsertBatches(before.tbl, SubSeq(batches, 1, j - 1))
                /\ is_scanning' = TRUE
                /\ last' = [op |-> "take_snapshot_raises", total_files |-> before.total_files,
                            walks |-> before.walks, from_empty |-> snapshot = EmptyTable]
                /\ UNCHANGED <<new_files, filter, concVars, hookVars, appVars,
                               monitored_paths, fs, active_paths, stopping, staging,
                               allowing>>

(***************************************************************************)
(* SpecBatch: _scan_directory statement by statement, over the files its   *)
(* walk yields.  todo: what _iter_files has still to yield; batch: the     *)
(* list staged; count; flushed: the batches handed to the ledger so far.   *)
(***************************************************************************)
MaxFiles == 4         \* files one walk yields
YieldPaths == {PReport, PPhoto, PNested, PJunk}
RECURSIVE DistinctSeqs(_, _)
DistinctSeqs(S, n) ==
    IF n = 0 \/ S = {} THEN {<<>>}
    ELSE {<<>>} \cup UNION {{<<x>> \o t : t \in DistinctSeqs(S \ {x}, n - 1)} : x \in S}
Yields == {[i \in 1..Len(q) |-> StatOf(q[i])] : q \in DistinctSeqs(YieldPaths, MaxFiles)}

BatchFrame ==
    UNCHANGED <<new_files, filter, concVars, hookVars, appVars, monitored_paths, fs,
                is_scanning, active_paths, stopping, allowing>>

\* lines 94-95: count = 0, batch = []; files: what the walk will yield
scan_directory_begins(files) ==
    /\ ~staging.running
    /\ staging' = [running |-> TRUE, todo |-> files, batch |-> <<>>, count |-> 0,
                   flushed |-> <<>>]
    /\ last' = [op |-> "scan_directory", flush |-> FALSE]
    /\ UNCHANGED snapshot
    /\ BatchFrame

\* lines 97-103, one pass of the loop: the file is appended and counted; a
\* batch that has reached the capacity is stored and cleared
scan_directory_stages ==
    /\ staging.running
    /\ staging.todo # <<>>
    /\ LET filled == Append(staging.batch, Head(staging.todo))
           flush == Len(filled) >= SCANNER_BATCH_SIZE
       IN /\ snapshot' = IF flush THEN InsertBatch(snapshot, filled) ELSE snapshot
          /\ staging' = [staging EXCEPT
                            !.todo = Tail(@),
                            !.count = @ + 1,
                            !.batch = IF flush THEN <<>> ELSE filled,
                            !.flushed = IF flush THEN Append(@, filled) ELSE @]
          /\ last' = [op |-> "stage", flush |-> flush]
    /\ BatchFrame

\* a _scan_directory that returns after the loop, without lines 105-107
scan_directory_returns_staged ==
    /\ staging.running
    /\ staging.todo = <<>>
    /\ UNCHANGED snapshot
    /\ staging' = [staging EXCEPT !.running = FALSE]
    /\ last' = [op |-> "scan_directory_returns", count |-> staging.count,
                flush |-> FALSE]
    /\ BatchFrame

\* lines 105-109: the walk is exhausted; what is staged is stored, and the
\* count returned
scan_directory_returns ==
    /\ staging.running
    /\ staging.todo = <<>>
    /\ snapshot' = IF staging.batch # <<>> THEN InsertBatch(snapshot, staging.batch)
                   ELSE snapshot
    /\ staging' = [staging EXCEPT
                      !.running = FALSE,
                      !.batch = <<>>,
                      !.flushed = IF staging.batch # <<>> THEN Append(@, staging.batch) ELSE @]
    /\ last' = [op |-> "scan_directory_returns", count |-> staging.count,
                flush |-> staging.batch # <<>>]
    /\ BatchFrame

NextBatch ==
    \/ \E files \in Yields : scan_directory_begins(files)
    \/ scan_directory_stages
    \/ scan_directory_returns

SpecBatch == InitBaseline /\ [][NextBatch]_vars

\* The monitored paths of a configuration: each of the three directories is
\* left out, or is there enabled or disabled, recursive or not.
PathChoices(d) ==
    {<<>>} \cup {<<[path |-> d, recursive |-> r, enabled |-> en]>> :
                    r \in BOOLEAN, en \in BOOLEAN}
MonitoredPathLists ==
    {a \o b \o c : a \in PathChoices(DDocs), b \in PathChoices(DSub),
                   c \in {p \in PathChoices(DJunk) : p = <<>> \/ (p[1].recursive /\ p[1].enabled)}}

InitScan ==
    /\ snapshot = EmptyTable
    /\ new_files = EmptyTable
    /\ filter = FilterEngine(CHOOSE c \in UserConfigs : ~c.show_hidden_files)
    /\ last = NoOp
    /\ ConcIdle
    /\ ProcessOff
    /\ monitored_paths \in MonitoredPathLists
    /\ fs \in [Entries -> EntryStates]
    /\ is_scanning = FALSE
    /\ active_paths = {}
    /\ stopping = NotStopping
    /\ staging = NotStaging
    /\ allowing = NotAllowing

NextScan ==
    \/ take_snapshot
    \/ take_snapshot_raises
    \/ initialize

SpecScan == InitScan /\ [][NextScan]_vars

(***************************************************************************)
(* Claims about the baseline scan, checked under SpecScan.  After          *)
(* take_snapshot, last.walks holds one record for every active path.       *)
(***************************************************************************)
Walks == {last.walks[i] : i \in 1..Len(last.walks)}

\* a directory whose lower-cased name is in the ignored-directory set
IgnoredDir(d) == d \in ScanDirs /\ Lower(Name(d)) \in filter.ignored_directories

\* e lies in the subtree of an ignored subdirectory of root
Pruned(e, root) == \E d \in ScanDirs : IgnoredDir(d) /\ Below(d, root) /\ Below(e, d)

\* e is on disk: it and the directories above it are there
OnDisk(e) == fs[e] # "absent" /\ \A d \in ScanDirs : Below(e, d) => fs[d] # "absent"

\* e can be read from root: it and every directory from root down to it
Readable(e, root) ==
    /\ fs[e] = "ok"
    /\ \A d \in ScanDirs : ((d = root \/ Below(d, root)) /\ Below(e, d)) => fs[d] = "ok"

\* C18, as stated: after a recursive scan of a root, nothing below an
\* ignored subdirectory of the root was enumerated or statted, no baseline
\* row lies inside such a subtree, and every file on disk below the root and
\* outside such subtrees has a baseline row.
C18_ScannerPruning_AsStated ==
    last.op = "take_snapshot" =>
        \A w \in Walks : w.recursive =>
            /\ \A d \in ScanDirs : (IgnoredDir(d) /\ Below(d, w.path)) =>
                  /\ d \notin w.scanned
                  /\ \A e \in Entries : Below(e, d) => e \notin w.statted
                  /\ \A p \in DOMAIN snapshot : ~Below(p, d)
            /\ \A e \in ScanFiles : (Below(e, w.path) /\ OnDisk(e) /\ ~Pruned(e, w.path))
                  => e \in DOMAIN snapshot

\* C18 amended: the walk of a recursive root enumerates and stats nothing
\* below an ignored subdirectory of that root and yields no file from such a
\* subtree; a baseline row comes from the walk of a root that has no ignored
\* subdirectory between itself and the file (a root that is itself an
\* ignored directory, or lies inside one, is walked); and the files below
\* the root outside such subtrees have rows when they and the directories
\* from the root down to them can be read.
C18_ScannerPruning ==
    last.op = "take_snapshot" =>
        /\ \A w \in Walks : w.recursive =>
              /\ \A d \in ScanDirs : (IgnoredDir(d) /\ Below(d, w.path)) =>
                    /\ d \notin w.scanned
                    /\ \A e \in Entries : Below(e, d) => (e \notin w.statted /\ e \notin w.files)
              /\ \A e \in ScanFiles :
                    (Below(e, w.path) /\ Readable(e, w.path) /\ ~Pruned(e, w.path))
                        => (e \in w.files /\ e \in DOMAIN snapshot)
        /\ last.from_empty =>
              \A p \in DOMAIN snapshot :
                  \E w \in Walks : p \in w.files /\ ~Pruned(p, w.path)

\* a readable tree with a file in an ignored subdirectory and a file in
\* another subdirectory has been scanned from its top, recursively
C18_Witness ==
    /\ last.op = "take_snapshot"
    /\ \E w \in Walks : w.path = DDocs /\ w.recursive /\ PNested \in w.files
    /\ fs[DJunk] = "ok"
    /\ fs[PJunk] = "ok"
    /\ PJunk \notin DOMAIN snapshot
    /\ PNested \in DOMAIN snapshot
    /\ PReport \in DOMAIN snapshot

\* the files that are immediate children of a directory
ChildFiles(d) == {c \in ScanFiles : Parent(c) = d}

\* C19, as stated: the scan of a non-recursive root records exactly the
\* files on disk that are immediate children of the root, enumerates no
\* subdirectory, and no baseline row lies below a subdirectory of the root.
C19_NonRecursiveRoot_AsStated ==
    last.op = "take_snapshot" =>
        \A w \in Walks : ~w.recursive =>
            /\ w.files = {c \in ChildFiles(w.path) : fs[c] # "absent"}
            /\ w.files \subseteq DOMAIN snapshot
            /\ w.scanned \subseteq {w.path}
            /\ \A p \in DOMAIN snapshot :
                  ~\E d \in ScanDirs : Below(d, w.path) /\ Below(p, d)

\* C19 amended: the walk of a non-recursive root that can be enumerated
\* records exactly the immediate child files whose is_file and stat
\* succeed (nothing when the root cannot be enumerated), enumerates no
\* subdirectory and stats nothing below one; a baseline row below a
\* subdirectory of the root comes from the walk of another monitored path.
C19_NonRecursiveRoot ==
    last.op = "take_snapshot" =>
        \A i \in 1..Len(last.walks) :
            LET w == last.walks[i]
            IN  ~w.recursive =>
                /\ w.files = IF fs[w.path] = "ok"
                             THEN {c \in ChildFiles(w.path) : fs[c] = "ok"}
                             ELSE {}
                /\ w.files \subseteq DOMAIN snapshot
                /\ w.scanned \subseteq {w.path}
                /\ \A e \in w.statted : Parent(e) = w.path
                /\ last.from_empty =>
                      \A p \in DOMAIN snapshot :
                          (\E d \in ScanDirs : Below(d, w.path) /\ Below(p, d)) =>
                              \E j \in 1..Len(last.walks) : j # i /\ p \in last.walks[j].files

\* a readable root with a file and a subdirectory holding a file has been
\* scanned non-recursively, and nothing else
C19_Witness ==
    /\ last.op = "take_snapshot"
    /\ Len(last.walks) = 1
    /\ last.walks[1].path = DDocs
    /\ ~last.walks[1].recursive
    /\ fs[DSub] = "ok"
    /\ fs[PNested] = "ok"
    /\ DOMAIN snapshot = {PReport}

\* C20, as stated: after take_snapshot from an empty baseline, the integer
\* it returns is the number of baseline rows.
C20_CountEqualsRows ==
    (last.op = "take_snapshot" /\ last.from_empty)
        => last.total_files = Cardinality(DOMAIN snapshot)

\* C21, as stated: whatever fails while an active root is scanned or its
\* batch is stored, take_snapshot returns normally with is_scanning false
\* and has walked every active root.
C21_RootFailureIsolation ==
    last.op \in {"take_snapshot", "take_snapshot_raises"} =>
        /\ last.op = "take_snapshot"
        /\ ~is_scanning
        /\ Len(last.walks) = Len(get_active_paths)

(***************************************************************************)
(* SpecRoots: the monitored paths of one AppConfig (config.py), edited     *)
(* with add_path and remove_path, and what uses them: take_snapshot and    *)
(* the watches of one FileMonitor (monitor.py, lines 105-162).  The        *)
(* directories of the paths come and go on disk (a drive is unplugged).    *)
(* A path is given in any spelling; Path(path).resolve() drops the '.'     *)
(* segments and takes a '..' segment with the segment before it.           *)
(***************************************************************************)
RECURSIVE Resolve(_)
Resolve(p) ==
    IF p = <<>> THEN <<>>
    ELSE LET seg == p[Len(p)]
             front == Resolve(SubSeq(p, 1, Len(p) - 1))
         IN IF seg = "." THEN front
            ELSE IF seg = ".." THEN SubSeq(front, 1, Len(front) - 1)
            ELSE Append(front, seg)

Normalized(p) == Resolve(p)

RawPaths == {DDocs, DSub, DSub \o <<"..">>, DDocs \o <<".", "sub">>}

RootsFrame ==
    UNCHANGED <<snapshot, new_files, filter, concVars, hookVars, appVars, is_scanning,
                stopping, staging, allowing>>

\* add_path without its test for a root of the same normalized path
add_path_unchecked(path, recursive) ==
    /\ monitored_paths' =
           Append(monitored_paths,
                  [path |-> Normalized(path), recursive |-> recursive, enabled |-> TRUE])
    /\ last' = [op |-> "add_path", path |-> path, monitored |-> FALSE]
    /\ UNCHANGED <<fs, active_paths>>
    /\ RootsFrame

\* add_path(path, recursive)
add_path(path, recursive) ==
    LET normalized == Normalized(path)
        monitored == \E i \in 1..Len(monitored_paths) :
                         Normalized(monitored_paths[i].path) = normalized
    IN  /\ monitored_paths' =
               IF monitored THEN monitored_paths
               ELSE Append(monitored_paths,
                           [path |-> normalized, recursive |-> recursive, enabled |-> TRUE])
        /\ last' = [op |-> "add_path", path |-> path, monitored |-> monitored]
        /\ UNCHANGED <<fs, active_paths>>
        /\ RootsFrame

\* remove_path(path)
remove_path(path) ==
    LET normalized == Normalized(path)
        Other(mp) == Normalized(mp.path) # normalized
    IN  /\ monitored_paths' = SelectSeq(monitored_paths, Other)
        /\ last' = [op |-> "remove_path", path |-> path]
        /\ UNCHANGED <<fs, active_paths>>
        /\ RootsFrame

\* start() with a _start_observer that lacks the test of lines 130-132: an
\* observer is made for every active path and takes the place of the one
\* registered for it
monitor_start_again ==
    \E failing \in SUBSET ScanDirs :
        LET active == {get_active_paths[i].path : i \in 1..Len(get_active_paths)}
        IN  /\ failing \subseteq active
            /\ active_paths' = active_paths \cup (active \ failing)
            /\ last' = [op |-> "monitor_start", started |-> active \ failing,
                        failed |-> failing]
            /\ UNCHANGED <<fs, monitored_paths>>
            /\ RootsFrame

\* FileMonitor.start(): _start_observer for every active path; a path that
\* has an observer is passed over, and observer.schedule/start may raise
\* OSError (failing: the paths for which it does)
monitor_start ==
    \E failing \in SUBSET ScanDirs :
        LET active == {get_active_paths[i].path : i \in 1..Len(get_active_paths)}
        IN  /\ failing \subseteq active \ active_paths
            /\ active_paths' = active_paths \cup (active \ failing)
            /\ last' = [op |-> "monitor_start", started |-> active \ (failing \cup active_paths),
                        failed |-> failing]
            /\ UNCHANGED <<fs, monitored_paths>>
            /\ RootsFrame

\* FileMonitor.stop()
monitor_stop ==
    /\ active_paths' = {}
    /\ last' = [op |-> "monitor_stop"]
    /\ UNCHANGED <<fs, monitored_paths>>
    /\ RootsFrame

\* restart_observer without lines 151-157: the observer registered for the
\* path stays, and _start_observer passes over the path that has one
restart_observer_keeping(path, ok) ==
    LET active == {get_active_paths[i].path : i \in 1..Len(get_active_paths)}
        started == IF path \in active \ active_paths /\ ok THEN {path} ELSE {}
    IN  /\ active_paths' = active_paths \cup started
        /\ last' = [op |-> "restart_observer", path |-> path, started |-> started,
                    removed |-> {}, start_ok |-> ok]
        /\ UNCHANGED <<fs, monitored_paths>>
        /\ RootsFrame

\* FileMonitor.restart_observer(path).  The observer registered for the path
\* is stopped and joined, an exception of either passed over, and deleted
\* from _observers; then _start_observer for the active root of that path,
\* if there is one (ok: observer.schedule/start do not raise OSError)
restart_observer(path, ok) ==
    LET active == {get_active_paths[i].path : i \in 1..Len(get_active_paths)}
        started == IF path \in active /\ ok THEN {path} ELSE {}
    IN  /\ active_paths' = (active_paths \ {path}) \cup started
        /\ last' = [op |-> "restart_observer", path |-> path, started |-> started,
                    removed |-> active_paths \cap {path}, start_ok |-> ok]
        /\ UNCHANGED <<fs, monitored_paths>>
        /\ RootsFrame

\* FileMonitor.stop() observer by observer.  _observers is cleared after
\* the loop (line 123), so the watches stay registered until stop() returns.
StopFrame ==
    UNCHANGED <<snapshot, new_files, filter, concVars, hookVars, appVars, is_scanning,
                monitored_paths, fs, staging, allowing>>

\* line 116: the loop over _observers.items() begins
stop_begins ==
    /\ stopping = NotStopping
    /\ stopping' = [running |-> TRUE, todo |-> active_paths, raised |-> {},
                    abandoned |-> {}]
    /\ last' = [op |-> "stop_begins"]
    /\ UNCHANGED active_paths
    /\ StopFrame

\* lines 117-122, for the observer of path: observer.stop() and
\* observer.join(timeout=5) return with the thread ended ("stopped"), one of
\* them raises and the exception is logged ("raised"), or join returns after
\* its timeout with the thread alive ("timed_out")
StopOutcomes == {"stopped", "raised", "timed_out"}
stop_observer(path, outcome) ==
    /\ stopping # NotStopping
    /\ path \in stopping.todo
    /\ stopping' = [running |-> TRUE, todo |-> stopping.todo \ {path},
                    raised |-> stopping.raised \cup
                                 (IF outcome = "raised" THEN {path} ELSE {}),
                    abandoned |-> stopping.abandoned \cup
                                 (IF outcome = "timed_out" THEN {path} ELSE {})]
    /\ last' = [op |-> "stop_observer", path |-> path, outcome |-> outcome]
    /\ UNCHANGED active_paths
    /\ StopFrame

\* a stop() that returns after the loop, without line 123
stop_returns_registered ==
    /\ stopping # NotStopping
    /\ stopping.todo = {}
    /\ stopping' = NotStopping
    /\ UNCHANGED active_paths
    /\ last' = [op |-> "stop_returns", raised |-> stopping.raised,
                abandoned |-> stopping.abandoned]
    /\ StopFrame

\* line 123: self._observers.clear(), and stop() returns
stop_returns ==
    /\ stopping # NotStopping
    /\ stopping.todo = {}
    /\ stopping' = NotStopping
    /\ active_paths' = {}
    /\ last' = [op |-> "stop_returns", raised |-> stopping.raised,
                abandoned |-> stopping.abandoned]
    /\ StopFrame

\* a directory appears on disk or disappears from it
DirectoryChanges(d) ==
    /\ fs' = [fs EXCEPT ![d] = IF fs[d] = "absent" THEN "ok" ELSE "absent"]
    /\ last' = [op |-> "DirectoryChanges"]
    /\ UNCHANGED <<monitored_paths, active_paths>>
    /\ RootsFrame

InitRoots ==
    /\ snapshot = EmptyTable
    /\ new_files = EmptyTable
    /\ filter = FilterEngine(CHOOSE c \in UserConfigs : ~c.show_hidden_files)
    /\ last = NoOp
    /\ ConcIdle
    /\ ProcessOff
    /\ monitored_paths \in MonitoredPathLists
    /\ fs = [e \in Entries |-> IF e \in ScanDirs THEN "ok" ELSE "absent"]
    /\ is_scanning = FALSE
    /\ active_paths = {}
    /\ stopping = NotStopping
    /\ staging = NotStaging
    /\ allowing = NotAllowing

NextRoots ==
    \/ \E path \in RawPaths, recursive \in BOOLEAN : add_path(path, recursive)
    \/ \E path \in RawPaths : remove_path(path)
    \/ monitor_start
    \/ monitor_stop
    \/ \E path \in ScanDirs, ok \in BOOLEAN : restart_observer(path, ok)
    \/ \E d \in ScanDirs : DirectoryChanges(d)
    \/ take_snapshot

SpecRoots == InitRoots /\ [][NextRoots]_vars

(***************************************************************************)
(* SpecStop: one FileMonitor started and stopped by one thread, its stop() *)
(* taken observer by observer.  A call of stop() that has begun goes on:   *)
(* none of its statements waits for more than the join timeout.            *)
(***************************************************************************)
StopStep ==
    \/ \E path \in ScanDirs, outcome \in StopOutcomes : stop_observer(path, outcome)
    \/ stop_returns

NextStop ==
    \/ stopping = NotStopping /\ monitor_start
    \/ stop_begins
    \/ StopStep
    \/ \E d \in ScanDirs : stopping = NotStopping /\ DirectoryChanges(d)

SpecStop == InitRoots /\ [][NextStop]_vars /\ WF_vars(StopStep)

(***************************************************************************)
(* Claims about the monitored paths, checked under SpecRoots.              *)
(***************************************************************************)
\* the positions of the configured roots that are enabled and on disk
ActiveRoots ==
    {i \in 1..Len(monitored_paths) :
        monitored_paths[i].enabled /\ fs[monitored_paths[i].path] # "absent"}
ActiveRootPaths == {monitored_paths[i].path : i \in ActiveRoots}

\* the k-th smallest position of S
Kth(S, k) == CHOOSE i \in S : Cardinality({j \in S : j < i}) = k - 1

\* C22  Only active roots participate: at every call, get_active_paths is
\* the list of the configured roots that are enabled and exist on disk, in
\* configuration order; take_snapshot walks exactly these, in order, and
\* FileMonitor.start and restart_observer start a watch only for a root
\* among them.
C22_OnlyActiveRoots ==
    [][/\ Len(get_active_paths) = Cardinality(ActiveRoots)
       /\ \A k \in 1..Len(get_active_paths) :
             get_active_paths[k] = monitored_paths[Kth(ActiveRoots, k)]
       /\ last'.op = "take_snapshot" =>
             /\ Len(last'.walks) = Cardinality(ActiveRoots)
             /\ \A k \in 1..Len(last'.walks) :
                   last'.walks[k].path = monitored_paths[Kth(ActiveRoots, k)].path
       /\ last'.op \in {"monitor_start", "restart_observer"} =>
             /\ last'.started \subseteq ActiveRootPaths
             /\ active_paths' \ active_paths \subseteq ActiveRootPaths]_vars

\* start() has started a watch while a configured root was disabled and
\* another was not on disk; neither has a watch
C22_Witness ==
    /\ last.op = "monitor_start"
    /\ last.started # {}
    /\ \E i \in 1..Len(monitored_paths) :
          /\ ~monitored_paths[i].enabled
          /\ fs[monitored_paths[i].path] = "ok"
          /\ monitored_paths[i].path \notin active_paths
    /\ \E i \in 1..Len(monitored_paths) :
          /\ monitored_paths[i].enabled
          /\ fs[monitored_paths[i].path] = "absent"
          /\ monitored_paths[i].path \notin active_paths

(***************************************************************************)
(* Claims about _scan_directory's batches, checked under SpecBatch.        *)
(***************************************************************************)
RECURSIVE Flatten(_)
Flatten(ss) == IF ss = <<>> THEN <<>> ELSE Head(ss) \o Flatten(Tail(ss))

\* C34  Batched baseline writes: the staged batch never holds more entries
\* than the capacity (it is flushed on reaching it); the flushed batches
\* and the staged one are, in order, the files yielded so far, so that
\* each file is handed to the ledger once; every flushed batch but the
\* last one of a scan is full; and when _scan_directory has returned
\* nothing is staged and every yielded file is a baseline row.
C34_BatchedBaselineWrites ==
    /\ Len(staging.batch) < SCANNER_BATCH_SIZE
    /\ \A j \in 1..Len(staging.flushed) :
          /\ Len(staging.flushed[j]) \in 1..SCANNER_BATCH_SIZE
          /\ (j < Len(staging.flushed) \/ staging.running) =>
                Len(staging.flushed[j]) = SCANNER_BATCH_SIZE
    /\ Len(Flatten(staging.flushed)) + Len(staging.batch) = staging.count
    /\ last.op = "scan_directory_returns" =>
          /\ staging.batch = <<>>
          /\ \A i \in 1..Len(Flatten(staging.flushed)) :
                Flatten(staging.flushed)[i].path \in DOMAIN snapshot
          /\ Cardinality({Flatten(staging.flushed)[i].path :
                            i \in 1..Len(Flatten(staging.flushed))}) = staging.count

\* a scan has returned after flushing a full batch in its loop and the
\* partial one that was left at its end
C34_Witness ==
    /\ last.op = "scan_directory_returns"
    /\ last.flush
    /\ Len(staging.flushed) > 1
    /\ Len(staging.flushed[Len(staging.flushed)]) < SCANNER_BATCH_SIZE

\* C31  One watch per root inside a monitor: start() leaves a watch
\* registered, under its path, for every active root whose observer could
\* be started; a root that has a watch gets no new observer and keeps the
\* one it has; a root whose observer raises OSError is passed over and the
\* other roots get their watches.
C31_OneWatchPerRoot ==
    [][last'.op = "monitor_start" =>
          /\ last'.started \cap active_paths = {}
          /\ active_paths' = active_paths \cup last'.started
          /\ ActiveRootPaths \ last'.failed \subseteq active_paths'
          /\ last'.failed \cap active_paths' = {}
          /\ last'.started = ActiveRootPaths \ (active_paths \cup last'.failed)]_vars

\* start() was called while a root was watched, started the watch of
\* another root and passed over a third whose observer raised
C31_Witness ==
    /\ last.op = "monitor_start"
    /\ last.started # {}
    /\ last.failed # {}
    /\ active_paths \ last.started # {}

\* C32  Monitor stop: a call of stop() returns, whatever its observers do
\* when stopped (stop at once, raise, or outlive the join timeout), and
\* leaves no watch registered; a start() after it registers a watch for
\* every active root whose observer could be started.
C32_StopLeavesNoWatch ==
    /\ (stopping # NotStopping) ~> (stopping = NotStopping /\ active_paths = {})
    /\ [](last.op = "stop_returns" => active_paths = {})
    /\ [][(last.op = "stop_returns" /\ last'.op = "monitor_start") =>
             active_paths' = ActiveRootPaths \ last'.failed]_vars

\* stop() has returned after one observer raised and another outlived the
\* join timeout
C32_Witness ==
    /\ last.op = "stop_returns"
    /\ last.raised # {}
    /\ last.abandoned # {}
    /\ active_paths = {}

\* C33, as stated: restart_observer(p) leaves the watches of the other roots
\* as they were and ends with a watch for p exactly when p is an active root.
C33_RestartSwapsOneWatch_AsStated ==
    [][last'.op = "restart_observer" =>
          /\ active_paths' \ {last'.path} = active_paths \ {last'.path}
          /\ last'.path \in active_paths' <=> last'.path \in ActiveRootPaths]_vars

\* C33  restart_observer(p) leaves the watches of the other roots as they
\* were; the watch registered for p, if any, is removed, and a new one is
\* registered exactly when p is an active root and its observer could be
\* started; when it could not, p ends with no watch.
C33_RestartSwapsOneWatch ==
    [][last'.op = "restart_observer" =>
          /\ active_paths' \ {last'.path} = active_paths \ {last'.path}
          /\ last'.removed = active_paths \cap {last'.path}
          /\ last'.started =
                IF last'.path \in ActiveRootPaths /\ last'.start_ok
                THEN {last'.path} ELSE {}
          /\ last'.path \in active_paths' <=> last'.started # {}]_vars

\* the watch of a root that is no longer active was removed by
\* restart_observer, while another root kept its watch
C33_Witness ==
    /\ last.op = "restart_observer"
    /\ last.removed # {}
    /\ last.started = {}
    /\ last.path \notin active_paths
    /\ active_paths # {}

\* the positions of the roots whose normalized path is not that of p
OtherRoots(p) ==
    {i \in 1..Len(monitored_paths) : Resolve(monitored_paths[i].path) # Resolve(p)}

\* C26  Monitored-root list editing: add_path(p) leaves monitored_paths as
\* it was when a root with p's normalized path is configured, and otherwise
\* appends one enabled root with that path, so no two roots have the same
\* normalized path; remove_path(p) leaves no root with p's normalized path
\* and every other root as it was, in order.
C26_RootListEditing ==
    [][/\ last'.op = "add_path" =>
             /\ IF OtherRoots(last'.path) # 1..Len(monitored_paths)
                THEN monitored_paths' = monitored_paths
                ELSE /\ Len(monitored_paths') = Len(monitored_paths) + 1
                     /\ SubSeq(monitored_paths', 1, Len(monitored_paths)) = monitored_paths
                     /\ monitored_paths'[Len(monitored_paths')].path = Resolve(last'.path)
                     /\ monitored_paths'[Len(monitored_paths')].enabled
             /\ \A i, j \in 1..Len(monitored_paths') :
                   i # j => Resolve(monitored_paths'[i].path) # Resolve(monitored_paths'[j].path)
       /\ last'.op = "remove_path" =>
             /\ \A i \in 1..Len(monitored_paths') :
                   Resolve(monitored_paths'[i].path) # Resolve(last'.path)
             /\ Len(monitored_paths') = Cardinality(OtherRoots(last'.path))
             /\ \A k \in 1..Len(monitored_paths') :
                   monitored_paths'[k] = monitored_paths[Kth(OtherRoots(last'.path), k)]]_vars

\* add_path has been called with another spelling of a configured root,
\* beside a second root, and changed nothing
C26_Witness ==
    /\ last.op = "add_path"
    /\ last.monitored
    /\ last.path # Resolve(last.path)
    /\ Len(monitored_paths) > 1

(***************************************************************************)
(* SpecFilter: should_include called on files of every kind, by a filter   *)
(* built from a configuration with or without the user's own exclusions.   *)
(* The two reads of a call are separate system calls, made one after the   *)
(* other: either may raise whatever the other did.                         *)
(***************************************************************************)
PWindows == <<"C:", "Windows", "a.txt">>
PTemporary == <<"C:", "AppData", "Local", "Temporary", "a.txt">>
PLog == <<"C:", "docs", "debug.LOG">>
PBuild == <<"C:", "docs", "Build">>
PNamedWindows == <<"C:", "docs", "Windows">>
FilterPaths ==
    {PReport, PPhoto, PJunk, PNested, PWindows, PTemporary, PLog, PBuild, PNamedWindows}

FilterConfigs ==
    [ignored_extensions : SUBSET {".PNG"},
     ignored_directories : SUBSET {"Docs"},
     show_hidden_files : BOOLEAN]

FilterCall(p, attrs, size) ==
    /\ last' = [op |-> "should_include", path |-> p, attrs |-> attrs, size |-> size,
                result |-> should_include(filter, p, attrs, size),
                reads |-> should_include_reads(filter, p, attrs)]
    /\ UNCHANGED <<snapshot, new_files>>
    /\ LedgerFrame

\* the settings are saved: the application builds a new FilterEngine
FilterRebuilt(config) ==
    /\ filter' = FilterEngine(config)
    /\ last' = [op |-> "FilterEngine"]
    /\ UNCHANGED <<snapshot, new_files, notMonitorVars>>

InitFilter ==
    /\ snapshot = EmptyTable
    /\ new_files = EmptyTable
    /\ filter \in {FilterEngine(c) : c \in FilterConfigs}
    /\ last = NoOp
    /\ ConcIdle
    /\ ProcessOff
    /\ ScanIdle

NextFilter ==
    \/ \E p \in FilterPaths, attrs \in Attrs, size \in SizeReads : FilterCall(p, attrs, size)
    \/ \E c \in FilterConfigs : FilterRebuilt(c)

SpecFilter == InitFilter /\ [][NextFilter]_vars

(***************************************************************************)
(* Claims about the filter, checked under SpecFilter.                      *)
(***************************************************************************)
\* the path is rejected by one of the tiers that read no file
RejectedByName(p) ==
    \/ matches_ignored_path_fragment(filter, PathLower(p))
    \/ \E i \in 1..Len(p) : Lower(p[i]) \in filter.ignored_directories
    \/ Lower(Suffix(Name(p))) \in filter.ignored_extensions

\* C23  Filter verdict: a path rejected by a fragment, a segment or its
\* extension gets False and no file system read is made for it; the
\* attribute read is made only with show-hidden off and the size read only
\* when the attribute tier passed; and when the reads succeed the verdict
\* is True exactly when the name passes, the file is not hidden or system
\* (or show-hidden is on) and its size is not zero.
C23_FilterVerdict ==
    last.op = "should_include" =>
        /\ RejectedByName(last.path) => (~last.result /\ last.reads = {})
        /\ filter.show_hidden => "stat" \notin last.reads
        /\ ("getsize" \in last.reads /\ "stat" \in last.reads)
              => last.attrs \notin {"hidden", "system"}
        /\ (last.attrs # "error" /\ last.size # OSErr) =>
              (last.result <=>
                  /\ ~RejectedByName(last.path)
                  /\ (filter.show_hidden \/ last.attrs \notin {"hidden", "system"})
                  /\ last.size # 0)

\* a file that the defaults would pass has been rejected for an extension
\* the user added in upper case, without a read
C23_Witness ==
    /\ last.op = "should_include"
    /\ last.path = PPhoto
    /\ ".png" \in filter.ignored_extensions
    /\ last.attrs = "normal"
    /\ last.size = MaxSize
    /\ ~last.result
    /\ last.reads = {}

\* C24, as stated: when the attribute read or the size read of a call fails
\* with an I/O error, should_include returns False.
C24_FilterFailsClosed ==
    (/\ last.op = "should_include"
     /\ \/ "stat" \in last.reads /\ last.attrs = "error"
        \/ "getsize" \in last.reads /\ last.size = OSErr)
        => ~last.result

(***************************************************************************)
(* Claims about events the monitor drops, checked under Spec and SpecWatch *)
(***************************************************************************)
MonitorEvents == {"on_created", "on_moved", "on_deleted"}

\* C25, as stated: when a ledger call fails while a handler runs, the
\* failure does not leave the handler.
C25_LedgerFailureContained ==
    (last.op \in MonitorEvents /\ "failed" \in DOMAIN last) => ~last.raised

\* C35  I/O error while recording drops the event: when the read of the
\* file's size fails while a create event or the destination of a move is
\* recorded, the handler writes no row (a create leaves new_files as it
\* was, a move only removes the row of its source) and returns normally.
C35_SizeErrorDropsEvent ==
    [][(/\ last'.op \in {"on_created", "on_moved"}
        /\ ~last'.is_directory
        /\ ~last'.size_read) =>
          /\ "raised" \notin DOMAIN last'
          /\ last'.op = "on_created" => new_files' = new_files
          /\ last'.op = "on_moved" => new_files' = DeleteRow(new_files, last'.src)]_vars

\* a move whose destination passed the filter and was not in the baseline
\* lost the file before its size was read: the source's row is gone, the
\* destination has none
C35_Witness ==
    /\ last.op = "on_moved"
    /\ last.tracked
    /\ last.include
    /\ ~last.in_snapshot
    /\ ~last.size_read
    /\ last.src \notin DOMAIN new_files
    /\ last.dest \notin DOMAIN new_files

\* C27  Directory events are ignored: a create, move or delete event for a
\* directory leaves the new_files table and the baseline as they were and
\* calls no method of the filter or of the ledger.
C27_DirectoryEventsIgnored ==
    [][(last'.op \in MonitorEvents /\ last'.is_directory) =>
          /\ new_files' = new_files
          /\ snapshot' = snapshot
          /\ last'.calls = {}]_vars

\* a directory event has been handled while a file was tracked and the
\* baseline held a row
C27_Witness ==
    /\ last.op \in MonitorEvents
    /\ last.is_directory
    /\ new_files # EmptyTable
    /\ snapshot # EmptyTable

(***************************************************************************)
(* Claims about the end of a review, checked under SpecShutdown and        *)
(* SpecApp.                                                                *)
(***************************************************************************)
\* C28, as stated: once the user has finalized the shutdown review and the
\* block has been released, the session writes no interrupted marker.
C28_MarkerMeansUnfinishedReview ==
    [][(proc = "teardown" /\ ~shutdown_blocked /\ released > 0 /\ ~marker)
          => ~marker']_vars

\* the thread that runs a step of the application: run(), the calls made
\* with root.after and the review window's callback run on the UI thread;
\* _wnd_proc on the ShutdownHook thread; _safe_callback on a thread of its
\* own; the tray menu's actions on the thread of pystray's icon.run
RunsOn(op) ==
    CASE op \in {"run", "show_cleanup", "on_cleanup_complete", "teardown"} -> "ui"
      [] op \in {"callback_returned", "callback_raised"} -> "callback"
      [] op \in {"on_review_now", "on_exit"} -> "tray"
      [] OTHER -> "hook"

\* C29, as stated: a step that runs on another thread than the UI thread
\* neither shows or drops the review window nor tears the application
\* down (the process ends on such a step only when the system ends the
\* session).
C29_UiThreadConfinement ==
    [][RunsOn(last'.op) # "ui" =>
          /\ cleanup_window' = cleanup_window
          /\ (proc = "on" /\ proc' = "off") => last'.op = "WM_ENDSESSION"]_vars

(***************************************************************************)
(* SpecImmutable: one session of the ledger after initialize(): the        *)
(* scanner's batches, the calls on new_files and the monitor's events, in  *)
(* any order.                                                              *)
(***************************************************************************)
\* The scanner meets one file with any mtime and another with one mtime;
\* the events and the calls on new_files are about the same two files.
ImmutablePaths == {PReport, PPhoto}
ImmutableRecords ==
    {r \in SnapshotRecords : r.path = PReport \/ (r.path = PPhoto /\ r.mtime = 0)}
ImmutableBatches == SeqsUpTo(ImmutableRecords, MaxBatch)

NextImmutable ==
    \/ \E file_records \in ImmutableBatches : store_snapshot_batch(file_records)
    \/ \E path \in ImmutablePaths : record_new_file(path, MaxSize, 0, get_file_type(path))
    \/ \E path \in ImmutablePaths : remove_new_file(path)
    \/ \E p \in ImmutablePaths : on_created_file(p)
    \/ \E src \in ImmutablePaths, dest \in ImmutablePaths : on_moved_file(src, dest)
    \/ \E p \in ImmutablePaths : on_deleted_file(p)

SpecImmutable == InitBaseline /\ [][NextImmutable]_vars

\* C30  Baseline rows are immutable for the session: no call of the ledger
\* after initialize() and no event of the monitor changes or deletes a row
\* of the baseline; only store_snapshot_batch adds rows, so that the calls
\* on new_files and the events leave is_in_snapshot as it was for every
\* path; a path submitted again with another mtime or size keeps its row.
C30_BaselineImmutable ==
    [][/\ \A p \in DOMAIN snapshot :
             p \in DOMAIN snapshot' /\ snapshot'[p] = snapshot[p]
       /\ last'.op # "store_snapshot_batch" => snapshot' = snapshot]_vars

\* a batch named a path of the baseline with another mtime, while a file
\* was tracked
C30_Witness ==
    /\ last.op = "store_snapshot_batch"
    /\ last.resubmits
    /\ new_files # EmptyTable
    /\ \E p \in DOMAIN snapshot : snapshot[p].mtime # MaxTime

(***************************************************************************)
(* SpecRun: one process and the disk under its one root, DDocs.  The       *)
(* Scanner thread walks the root entry by entry (os.scandir is read as the *)
(* loop goes) and stages what it yields; files are made and removed under  *)
(* the root; a running watch hands each change to its handler; the UI      *)
(* thread opens and closes reviews and saves settings.  _teardown() does   *)
(* not end the process: its threads are daemon threads and run on until    *)
(* run() has returned and the interpreter is gone ("exiting").             *)
(***************************************************************************)
RunRoot == [path |-> DDocs, recursive |-> TRUE, enabled |-> TRUE]
RunPaths == {PReport, PNested}

\* what the walk of the root comes to, in order, were every entry there
RunWalk == iter_files([e \in Entries |-> "ok"], filter, RunRoot.path, RunRoot.recursive).files

\* what a handler reads of a file that is there: not hidden, not empty
RunRead == [attrs |-> "normal", size |-> MaxSize, size2 |-> MaxSize]

ThreadsRun == proc \in {"on", "exiting"}

RunFrame == UNCHANGED <<filter, concVars, hookVars, appVars, monitored_paths,
                        active_paths, stopping, allowing>>

InitRun ==
    /\ snapshot = EmptyTable
    /\ new_files = EmptyTable
    /\ filter = FilterEngine(CHOOSE c \in UserConfigs : ~c.show_hidden_files)
    /\ last = NoOp
    /\ ConcIdle
    /\ ProcessOff
    /\ monitored_paths = <<RunRoot>>
    /\ fs = [e \in Entries |-> IF e \in {DDocs, DSub} THEN "ok" ELSE "absent"]
    /\ is_scanning = FALSE
    /\ active_paths = {}
    /\ stopping = NotStopping
    /\ staging = NotStaging
    /\ allowing = NotAllowing

\* run(), once
run_starts == sessions = 0 /\ Start(TRUE, TRUE)

\* take_snapshot, scanner.py 60-72, and _scan_directory 94-97 for the root
take_snapshot_begins ==
    /\ ThreadsRun
    /\ scan_pc = "scanning"
    /\ ~is_scanning
    /\ is_scanning' = TRUE
    /\ staging' = [running |-> TRUE, todo |-> RunWalk, batch |-> <<>>, count |-> 0,
                   flushed |-> <<>>]
    /\ last' = [op |-> "take_snapshot_begins"]
    /\ UNCHANGED <<snapshot, new_files, fs>>
    /\ RunFrame

\* the walk comes to a file that is there: _iter_files yields it, and
\* _scan_directory stages it
walk_yields ==
    /\ ThreadsRun
    /\ staging.todo # <<>>
    /\ fs[Head(staging.todo).path] = "ok"
    /\ scan_directory_stages

\* the walk comes to where a file is not: nothing is yielded
walk_passes ==
    /\ ThreadsRun
    /\ staging.running
    /\ staging.todo # <<>>
    /\ fs[Head(staging.todo).path] # "ok"
    /\ staging' = [staging EXCEPT !.todo = Tail(@)]
    /\ last' = [op |-> "pass", path |-> Head(staging.todo).path]
    /\ UNCHANGED <<snapshot, new_files, fs, is_scanning>>
    /\ RunFrame

\* the walk is exhausted: _scan_directory stores what is staged and returns
walk_ends ==
    /\ ThreadsRun
    /\ scan_directory_returns

\* take_snapshot, lines 82-84, returns to _scan_then_monitor
take_snapshot_returns ==
    /\ ThreadsRun
    /\ scan_pc = "scanning"
    /\ is_scanning
    /\ ~staging.running
    /\ is_scanning' = FALSE
    /\ scan_pc' = "scanned"
    /\ last' = [op |-> "take_snapshot"]
    /\ UNCHANGED <<snapshot, new_files, filter, concVars, hookVars, ui_queue, auto_review,
                   cleanup_window, monitor, observers, monitored_paths, fs, active_paths,
                   stopping, staging, allowing>>

\* A file is made under the root, after the scan has begun and while no
\* review is open.  If a watch is running, its handler records the file
\* (on_created, monitor.py 45-47; all running watches do the same).
file_created(p) ==
    /\ ThreadsRun
    /\ is_scanning \/ scan_pc \in {"scanned", "made", "done"}
    /\ cleanup_window = NoWindow
    /\ fs[p] = "absent"
    /\ fs' = [fs EXCEPT ![p] = "ok"]
    /\ new_files' = IF observers # {} THEN try_record(new_files, p, RunRead, MaxTime)
                    ELSE new_files
    /\ last' = [op |-> "file_created", path |-> p, watched |-> observers # {},
                scanning |-> is_scanning]
    /\ UNCHANGED <<snapshot, is_scanning, staging>>
    /\ RunFrame

\* A file is removed (on_deleted, monitor.py 59-62, if a watch is running).
file_deleted(p) ==
    /\ ThreadsRun
    /\ fs[p] = "ok"
    /\ fs' = [fs EXCEPT ![p] = "absent"]
    /\ new_files' = IF observers # {} THEN DeleteRow(new_files, p) ELSE new_files
    /\ last' = [op |-> "file_deleted", path |-> p, watched |-> observers # {},
                scanning |-> is_scanning]
    /\ UNCHANGED <<snapshot, is_scanning, staging>>
    /\ RunFrame

\* _on_exit, app.py 182-185: _teardown() has returned
teardown_completes ==
    /\ proc = "on"
    /\ proc' = "exiting"
    /\ observers' = teardown_observers
    /\ last' = [op |-> "teardown"]
    /\ UNCHANGED <<sessions, marker, hwnd, shutdown_blocked, os_ending, handler,
                   cb, released, ui_queue, auto_review, cleanup_window,
                   scan_pc, monitor>>
    /\ AppFrame

\* run() has returned and the interpreter ends: every thread is gone
process_ends ==
    /\ proc = "exiting"
    /\ proc' = "off"
    /\ observers' = {}
    /\ scan_pc' = "idle"
    /\ is_scanning' = FALSE
    /\ staging' = NotStaging
    /\ last' = [op |-> "exit"]
    /\ UNCHANGED <<snapshot, new_files, filter, concVars, sessions, marker, hwnd,
                   shutdown_blocked, os_ending, handler, cb, released, ui_queue,
                   auto_review, cleanup_window, monitor, monitored_paths, fs,
                   active_paths, stopping, allowing>>

NextRun ==
    \/ run_starts
    \/ take_snapshot_begins
    \/ walk_yields
    \/ walk_passes
    \/ walk_ends
    \/ take_snapshot_returns
    \/ ScanMakesMonitor
    \/ ScanStartsMonitor
    \/ \E p \in RunPaths : file_created(p)
    \/ \E p \in RunPaths : file_deleted(p)
    \/ on_review_now
    \/ AutoReview
    \/ UiRun
    \/ cleanup_complete_continue
    \/ \E c \in UserConfigs : on_config_saved(c)
    \/ teardown_completes
    \/ process_ends

SpecRun == InitRun /\ [][NextRun]_vars

\* C36, as stated: at no time of a running application is a path both a
\* row of the baseline and a new-file record.
C36_BaselineAndNewDisjoint ==
    proc = "on" => DOMAIN snapshot \cap DOMAIN new_files = {}

\* C39, as stated: from the return of _teardown() on, no watch is running
\* and neither table of the ledger is written, wherever the Scanner thread
\* was when _teardown() began.
C39_NothingRunsAfterTeardown ==
    [][(proc = "exiting" /\ proc' = "exiting")
          => /\ observers = {} /\ observers' = {}
             /\ snapshot' = snapshot
             /\ new_files' = new_files]_vars

\* C40, as stated: when a review reads its list, every file that was made
\* under the root after the scan began and while no review was open, that
\* passes the filter and is still there, is a baseline row or a new-file
\* record.  (SpecRun makes files only under these conditions.  Taken where
\* it asks least: the review opens after the scan has ended and the Scanner
\* thread has started its monitor.)
C40_NoFileLost ==
    [][(last'.op = "show_cleanup" /\ last'.opened /\ scan_pc = "done")
          => \A p \in RunPaths :
                (fs[p] = "ok" /\ should_include(filter, p, RunRead.attrs, RunRead.size))
                   => p \in DOMAIN snapshot \cup DOMAIN new_files]_vars

(***************************************************************************)
(* Claims about the review window and the block, checked under SpecApp.    *)
(***************************************************************************)
\* A termination query has been handled, every callback the hook started
\* has returned, and the UI thread has run every _show_cleanup(True) they
\* scheduled.
ShutdownRequestsDelivered ==
    /\ handler.step = 0
    /\ \E i \in 1..Len(cb) : cb[i].origin = "query"
    /\ \A i \in 1..Len(cb) : cb[i].st = "returned"
    /\ \A i \in 1..Len(ui_queue) : ~ui_queue[i]

\* C4, as stated: when the block is asserted and the user finalizes the
\* review in the window, allow_shutdown() is invoked and the block is
\* released, whatever request the window was opened for.  (Taken where it
\* asks least: no callback raised, the UI thread has already run every
\* shutdown request, and no release call raises.)
C4_BlockReleasedAfterReview ==
    [][(/\ last'.op = "on_cleanup_complete"
        /\ shutdown_blocked
        /\ ShutdownRequestsDelivered
        /\ ~(last'.os_call /\ ~last'.os_ok))
       => (last'.allow /\ ~shutdown_blocked')]_vars

====
